---------------------------- MODULE Spec2Model ----------------------------
(***************************************************************************)
(* State-machine model of the OpenConvert client                          *)
(* (src/openconvert/client.py) and of the command line driver              *)
(* (src/openconvert_cli.py).                                               *)
(*                                                                         *)
(* The client is asyncio code: a coroutine runs without interruption from  *)
(* one await to the next, so every action below is the code between two    *)
(* awaits.  The inbound-message callback _handle_conversion_response is    *)
(* invoked by the messaging adapter and may run at any await of the        *)
(* coroutine.                                                              *)
(***************************************************************************)
EXTENDS Integers, Sequences, FiniteSets, TLC

(***************************************************************************)
(* Bounds of the model.                                                    *)
(***************************************************************************)
MaxTimeout == 2          \* largest timeout (seconds = poll ticks) a caller passes
MaxDeliveries == 2       \* inbound messages delivered around one convert_file call
MaxFiles == 2            \* longest list handed to convert_files_batch
MaxBatchTimeout == 1     \* largest timeout handed to convert_files_batch
MaxBatchDeliveries == 1  \* inbound messages delivered while a batch runs

Nil == "nil"         \* Python's None / a key missing from a dict

(***************************************************************************)
(* base64 as base64.b64decode(s) (validate=False) computes it.  A payload  *)
(* is a sequence of characters: 0..63 is a character of the alphabet       *)
(* (given by its 6-bit value), PadChar is '=', JunkChar is any character   *)
(* outside the alphabet (a line break, say), which the decoder skips.      *)
(***************************************************************************)
PadChar == 64
JunkChar == 65

RECURSIVE B64Scan(_, _, _, _, _, _)
B64Scan(s, i, quad_pos, leftchar, pads, out) ==
    IF i > Len(s)
    THEN [ok |-> quad_pos = 0, bytes |-> out]
    ELSE LET ch == s[i] IN
         IF ch = PadChar
         THEN IF quad_pos >= 2 /\ quad_pos + pads + 1 >= 4
              THEN [ok |-> TRUE, bytes |-> out]
              ELSE B64Scan(s, i + 1, quad_pos, leftchar,
                           IF quad_pos >= 2 THEN pads + 1 ELSE pads, out)
         ELSE IF ch >= 64
         THEN B64Scan(s, i + 1, quad_pos, leftchar, pads, out)
         ELSE CASE quad_pos = 0 -> B64Scan(s, i + 1, 1, ch, 0, out)
                [] quad_pos = 1 ->
                     B64Scan(s, i + 1, 2, ch % 16, 0,
                             Append(out, (leftchar * 4 + ch \div 16) % 256))
                [] quad_pos = 2 ->
                     B64Scan(s, i + 1, 3, ch % 4, 0,
                             Append(out, (leftchar * 16 + ch \div 4) % 256))
                [] OTHER ->
                     B64Scan(s, i + 1, 0, 0, 0,
                             Append(out, (leftchar * 64 + ch) % 256))

\* A faulty decoder: the payload taken as the bytes themselves.
B64DecodeIdentity(s) == [ok |-> TRUE, bytes |-> s]

\* base64.b64decode: ok = FALSE stands for binascii.Error being raised.
B64Decode(s) == B64Scan(s, 1, 0, 0, 0, <<>>)

(***************************************************************************)
(* Payloads the agents send.                                               *)
(***************************************************************************)
PayloadMd == <<8, 50, 1, 8>>                \* "IyBI"    = base64 of "# H"
PayloadNoisy == <<18, JunkChar, 6, 36, PadChar>>  \* "S\nGk=" = base64 of "Hi"
PayloadBad == <<18, 6, 36>>                 \* "SGk": incorrect padding
NoData == <<>>                              \* key missing, or an empty string

RECURSIVE B64Groups(_, _)
B64Groups(b, i) ==
    IF i > Len(b) THEN <<>>
    ELSE LET n  == Len(b) - i + 1
             b1 == b[i]
             b2 == IF n >= 2 THEN b[i + 1] ELSE 0
             b3 == IF n >= 3 THEN b[i + 2] ELSE 0
         IN  << b1 \div 4,
                (b1 % 4) * 16 + b2 \div 16,
                IF n >= 2 THEN (b2 % 16) * 4 + b3 \div 64 ELSE PadChar,
                IF n >= 3 THEN b3 % 64 ELSE PadChar >>
             \o B64Groups(b, i + 3)

\* base64.b64encode(data).decode('ascii')
B64Encode(b) == B64Groups(b, 1)

(***************************************************************************)
(* The world the client runs in.                                           *)
(***************************************************************************)
Agents == {"A", "B"}

\* A message content (a Python dict).  A missing key is Nil; a missing or
\* empty payload is NoData (the code tests payloads for truth only).
\* origin and re are not in the dict: they record who really sent the
\* message and which request (invocation number, 0 for none) it answers.
Body(cs, success, action, fd, od, err) ==
    [conversion_status |-> cs, success |-> success, action |-> action,
     file_data |-> fd, output_data |-> od, error |-> err]

Bodies ==
    { Body("success", Nil, Nil, PayloadMd, NoData, Nil),
      Body(Nil, "True", "conversion_result", NoData, PayloadNoisy, Nil),
      Body("success", Nil, Nil, NoData, NoData, Nil),
      Body("success", Nil, Nil, PayloadBad, NoData, Nil),
      Body("error", Nil, Nil, PayloadMd, NoData, "unsupported prompt"),
      Body(Nil, "False", "conversion_result", NoData, NoData, Nil),
      Body("processing", Nil, Nil, NoData, NoData, Nil),
      Body("error", "True", Nil, PayloadMd, NoData, "partial"),
      Body(Nil, Nil, "other", NoData, NoData, Nil),
      Body(Nil, Nil, "conversion_result", NoData, NoData, Nil),
      Body("", Nil, Nil, PayloadMd, NoData, Nil),
      Body(Nil, Nil, Nil, NoData, NoData, Nil) }

Tag(body, sender, req) ==
    [conversion_status |-> body.conversion_status, success |-> body.success,
     action |-> body.action, file_data |-> body.file_data,
     output_data |-> body.output_data, error |-> body.error,
     origin |-> sender, re |-> req]

\* No entry under a key of conversion_responses / response not yet assigned.
NoEntry == Tag(Body(Nil, Nil, Nil, NoData, NoData, Nil), Nil, 0)

\* No message handed to the callback yet.
NoMessage ==
    [content |-> NoEntry, sender_id |-> Nil, owed |-> 0]

(***************************************************************************)
(* Paths (pathlib.Path) and the file system.  A file name is its stem and  *)
(* its suffix; a path is the names of its directories and its own name.    *)
(***************************************************************************)
N(stem, suffix) == [stem |-> stem, suffix |-> suffix]
P(dir, stem, suffix) == [dir |-> dir, name |-> N(stem, suffix)]

\* path.parent, as the names leading to it; the path itself taken as a directory
Parent(path) == path.dir
AsDir(path) == Append(path.dir, path.name)

Prefixes(d) == { SubSeq(d, 1, k) : k \in 0..Len(d) }

\* The file system: the directories that exist (<<>> is the working
\* directory) and the files, each with its bytes.
Exists(fsNow, path) == path \in DOMAIN fsNow.files
MkdirParents(fsNow, d) == [fsNow EXCEPT !.dirs = @ \cup Prefixes(d)]
WriteBytes(fsNow, path, bytes) ==
    [fsNow EXCEPT !.files =
        [q \in DOMAIN @ \cup {path} |-> IF q = path THEN bytes ELSE @[q]]]

HelloBytes == <<72, 105>>
HelloTxt == P(<<>>, "hello", ".txt")
GoneTxt == P(<<>>, "gone", ".txt")
InA == P(<<N("in", "")>>, "a", ".txt")
InSubA == P(<<N("in", ""), N("sub", "")>>, "a", ".txt")
OutHelloMd == P(<<N("out", "")>>, "hello", ".md")
BMd == P(<<>>, "b", ".md")
NoPath == P(<<>>, Nil, Nil)

FileSpec(input, output, prompt) ==
    [input_file |-> input, output_file |-> output,
     source_format |-> "text/plain", target_format |-> "text/markdown",
     prompt |-> prompt]

FileSpecs ==
    { FileSpec(HelloTxt, OutHelloMd, Nil),
      FileSpec(HelloTxt, BMd, "add a title"),
      FileSpec(GoneTxt, BMd, Nil) }

NoCall == FileSpec(NoPath, NoPath, Nil)

\* The arguments of convert_files (command line).
CliArg(input_files, output_path, from_format, to_format, prompt) ==
    [input_files |-> input_files, output_path |-> output_path,
     from_format |-> from_format, to_format |-> to_format, prompt |-> prompt]

\* The command line main() parses (host, port and the logging switches are
\* left out).
ArgV(input, output, from_format, to_format, prompt) ==
    [input |-> input, output |-> output, from_format |-> from_format,
     to_format |-> to_format, prompt |-> prompt]

\* convert_files was not called by main().
NoArgV == ArgV(NoPath, NoPath, Nil, Nil, Nil)

\* convert_files and convert_files_batch before they are called (pc "off":
\* not part of the run).  ret is what convert_files returned or the exception
\* that leaves it; exit is main()'s return value, <<>> while it runs.
NoCli == [pc |-> "off", args |-> CliArg(<<>>, NoPath, Nil, Nil, Nil), i |-> 1,
          success_count |-> 0, ret |-> Nil, cancelled |-> FALSE,
          argv |-> NoArgV, exit |-> <<>>]
NoBatch == [pc |-> "off", files |-> <<>>, i |-> 1, results |-> <<>>, timeout |-> 0]

\* What discover_conversion_agents may answer: a list of agent descriptors
\* (given by their agent_id; Nil is a descriptor without that key).
DiscoveryAnswers ==
    { <<>>, <<"A">>, <<"A", "B">>, <<"B", "A">>, <<Nil>> }

SeqsUpTo(S, n) == UNION { [1..k -> S] : k \in 0..n }

VARIABLES
    connected,             \* self.connected
    session,               \* the AgentClient's network session: "closed" | "open"
    conversion_responses,  \* self.conversion_responses: [Agents -> content | NoEntry]
    pc,                    \* convert_file: "idle" | "discovering" | "sending"
                           \*               | "sleeping" | "returned"
    call,                  \* convert_file's arguments (a FileSpec)
    timeout,               \* convert_file's timeout argument
    agents,                \* local: the list discover_agents returned
    agent_id,              \* local: the selected agent
    ticks,                 \* iterations of the wait loop started so far
    response,              \* local: the response read at a poll tick
    ret,                   \* what convert_file returned ("True" | "False"), or
                           \* the exception it raised
    log,                   \* the last logger.error record of convert_file
    fs,                    \* the file system
    sent,                  \* requests handed to send_direct_message, in order
    batch,                 \* convert_files_batch: its locals and position
    cli,                   \* convert_files of the command line: locals and position
    inv,                   \* number of convert_file invocations so far
    fs0,                   \* the file system when the current invocation began
    reads,                 \* invocations that read their input file
    calls,                 \* the arguments of every convert_file call, in order
    rets,                  \* how every finished convert_file call ended, in order
    delivered,             \* inbound messages delivered so far
    main,                  \* the program calling the client: its position
    connect_ret,           \* what the last call of connect returned (Nil: not called)
    net,                   \* the network session: how often it was opened and
                           \* closed, and how often disconnect() was called
    disc,                  \* discovery: the calls and adapter queries made, and
                           \* how the last discover_agents call ended
    inbox,                 \* the last message handed to the inbound callback
    launcher               \* scripts/launch_agents.py: the pid files, the processes
                           \* it started, and the position of the running command

vars == << main, connect_ret, connected, session, conversion_responses, pc, call, timeout, agents,
           agent_id, ticks, response, ret, log, fs, sent, batch, cli, inv, fs0,
           reads, calls, rets, delivered, net, disc, inbox, launcher >>

clientVars == << connected, session, connect_ret, net >>
cfVars == << pc, call, timeout, agents, agent_id, ticks, response, ret, log,
             inv, fs0, reads, calls, rets, disc >>

(***************************************************************************)
(* scripts/launch_agents.py: state                                         *)
(***************************************************************************)
\* Two of ALL_CATEGORIES
Categories == {"doc", "image"}

\* Processes the launcher may spawn in one run of the model.
MaxSpawns == 3

\* A faulty stop: the grace loop is over before its first check.
GraceLoopEndsAtOnce(i) == TRUE

\* for i in range(5) of stop_agent: the loop is over after i iterations.
GraceLoopEnds(i) == i >= 5

\* The launcher before any command: no pid file (0), no process.  procs is
\* the sequence of the processes spawned, a process's pid its index.
\* pc: "off" | "idle" | "start_sleep" | "stop_grace" | "stop_final"
\*     | "returned"; restart: the command is restart_agents; had: the
\* category had a pid file when stop_agent was called; said: the message
\* printed last.
NoLauncher ==
    [pc |-> "off", op |-> Nil, category |-> Nil, pid |-> 0, i |-> 0,
     restart |-> FALSE, had |-> FALSE, returned |-> Nil, said |-> Nil,
     pidfile |-> [c \in Categories |-> 0], procs |-> <<>>]

\* No discover_agents call made yet / none in the current frame.
\* op: the method called by the program (Nil: by convert_file); calls: such
\* calls so far; queries: adapter queries so far; pending: queries the running
\* call has still to make; raised: the adapter raised in the last query;
\* error: the exception the call raised; result: what discover_agents returned.
\* asked: the formats of convert_file's last discovery query.
\* known, advertised: the agents that advertise the conversion asked for,
\* once a query has been put to the network; first: what the first of two
\* successive discover_agents calls returned.
NoDisc == [op |-> Nil, calls |-> 0, queries |-> 0, pending |-> 0,
           raised |-> FALSE, error |-> Nil, result |-> <<>>,
           known |-> FALSE, advertised |-> <<>>, first |-> <<>>,
           asked |-> <<>>]

NoLog == [kind |-> "none", msg |-> Nil]

InitFs ==
    [files |-> [p \in {HelloTxt, InA, InSubA} |-> HelloBytes],
     dirs  |-> Prefixes(<<N("in", ""), N("sub", "")>>)]

\* OpenConvertClient.__init__
InitClient ==
    /\ connected = FALSE
    /\ session = "closed"
    /\ connect_ret = Nil
    /\ conversion_responses = [a \in Agents |-> NoEntry]
    /\ pc = "idle"
    /\ call = NoCall
    /\ timeout = 0
    /\ agents = <<>>
    /\ agent_id = Nil
    /\ ticks = 0
    /\ response = NoEntry
    /\ ret = Nil
    /\ log = NoLog
    /\ fs = InitFs
    /\ sent = <<>>
    /\ inv = 0
    /\ fs0 = InitFs
    /\ reads = {}
    /\ calls = <<>>
    /\ rets = <<>>
    /\ delivered = 0
    /\ net = [opened |-> 0, closed |-> 0, disconnect_calls |-> 0]
    /\ disc = NoDisc
    /\ inbox = NoMessage

(***************************************************************************)
(* _handle_conversion_response                                             *)
(***************************************************************************)
\* A faulty test: a key that is present counts, whatever its value.
HasValue(v) == v # Nil

\* The truth value Python gives a string or None.
Truthy(v) == v \notin {Nil, ""}

IsEmptyDict(content) ==
    /\ content.conversion_status = Nil /\ content.success = Nil
    /\ content.action = Nil /\ content.error = Nil
    /\ content.file_data = NoData /\ content.output_data = NoData

Recognized(content) ==
    /\ ~IsEmptyDict(content)
    /\ \/ Truthy(content.conversion_status)
       \/ content.action = "conversion_result"

\* A faulty callback: one slot for the last response, whoever sent it.
RecordInEverySlot(responses, content, sender_id) ==
    IF Recognized(content)
    THEN [a \in Agents |-> content]
    ELSE responses

\* A faulty callback: an entry that is there is kept (first writer wins).
RecordIfAbsent(responses, content, sender_id) ==
    IF Recognized(content) /\ responses[sender_id] = NoEntry
    THEN [responses EXCEPT ![sender_id] = content]
    ELSE responses

\* The dict after the callback ran.
Record(responses, content, sender_id) ==
    IF Recognized(content)
    THEN [responses EXCEPT ![sender_id] = content]
    ELSE responses

\* Inbound messages are followed while the program converts: one that came
\* earlier is one that comes before the first file is taken up.
Running ==
    \/ batch.pc \in {"loop", "calling"}
    \/ cli.pc \in {"loop", "calling"}
    \/ main \in {"api", "api_calling"}

\* Requests an agent may be answering: none (0), or any request sent to it.
Answerable(s) == {0} \cup { sent[k].inv : k \in { j \in 1..Len(sent) : sent[j].to = s } }

\* owed: the invocation (0: none) whose next poll tick finds that a success
\* or error response was recorded for its agent since the request was
\* handed to the send, or since its last tick.
Owed(content, sender_id) ==
    IF /\ pc \in {"sending", "sleeping"}
       /\ sender_id = agent_id
       /\ Recognized(content)
       /\ content.conversion_status \in {"success", "error"}
             \/ content.success \in {"True", "False"}
    THEN inv
    ELSE inbox.owed

HandleConversionResponse(content, sender_id) ==
    /\ connected
    /\ delivered' = delivered + 1
    /\ inbox' = [content |-> content, sender_id |-> sender_id,
                 owed |-> Owed(content, sender_id)]
    /\ conversion_responses' = Record(conversion_responses, content, sender_id)
    /\ UNCHANGED << clientVars, cfVars, fs, sent, batch, cli, launcher, main >>

\* The messaging adapter delivers a message, of any content, from any agent.
Deliver ==
    /\ main \in {"start", "calling"}
    /\ delivered < MaxDeliveries
    /\ \E s \in Agents, b \in Bodies :
         \E r \in Answerable(s) : HandleConversionResponse(Tag(b, s, r), s)

\* The contents followed while a batch runs: a result, an error, a progress note.
ReplyBodies ==
    { Body("success", Nil, Nil, PayloadMd, NoData, Nil),
      Body("error", Nil, Nil, PayloadMd, NoData, "unsupported prompt"),
      Body("processing", Nil, Nil, NoData, NoData, Nil) }

\* The messaging adapter delivers a message while a batch runs.
DeliverReply ==
    /\ Running
    /\ delivered < MaxBatchDeliveries
    /\ \E s \in Agents, b \in ReplyBodies :
         \E r \in Answerable(s) : HandleConversionResponse(Tag(b, s, r), s)

(***************************************************************************)
(* connect / disconnect                                                    *)
(***************************************************************************)
ConnectOutcomes == {"ok", "refused", "connect_raises", "register_raises"}

\* connect cancelled at one of its two awaits: in connect_to_server, or in
\* the sleep that follows connected = True.  CancelledError is no Exception:
\* connect does not catch it and returns nothing.
CancelledConnects == {"cancelled_in_connect", "cancelled_in_sleep"}

\* OpenConvertClient.connect: connect_to_server answers False ("refused") or
\* raises, or succeeds and a later registration raises, or all succeeds.
Connect(outcome) ==
    LET opens == outcome \in {"ok", "register_raises", "cancelled_in_sleep"} IN
    /\ session' = IF opens THEN "open" ELSE session
    /\ connected' = IF outcome \in {"ok", "cancelled_in_sleep"} THEN TRUE
                    ELSE connected
    /\ connect_ret' = IF outcome = "ok" THEN "True"
                      ELSE IF outcome \in CancelledConnects THEN connect_ret
                      ELSE "False"
    /\ net' = [net EXCEPT !.opened = IF opens THEN @ + 1 ELSE @]

\* A faulty disconnect: the session is closed whatever self.connected says.
ClosesAlways(isConnected) == TRUE

\* if self.connected: await self.client.disconnect()
ClosesSession(isConnected) == isConnected

\* OpenConvertClient.disconnect
Disconnect ==
    /\ session' = IF ClosesSession(connected) THEN "closed" ELSE session
    /\ connected' = FALSE
    /\ net' = [net EXCEPT !.disconnect_calls = @ + 1,
                          !.closed = IF ClosesSession(connected) THEN @ + 1 ELSE @]
    /\ UNCHANGED connect_ret

(***************************************************************************)
(* convert_file                                                            *)
(***************************************************************************)
Returns(value, kind, msg) ==
    /\ pc' = "returned"
    /\ ret' = value
    /\ log' = [kind |-> kind, msg |-> msg]
    /\ rets' = Append(rets, [ret |-> value, kind |-> kind])

\* convert_file's frame is gone once its caller has taken the outcome.
FrameGone ==
    /\ pc' = "idle"
    /\ call' = NoCall
    /\ timeout' = 0
    /\ agents' = <<>>
    /\ agent_id' = Nil
    /\ ticks' = 0
    /\ response' = NoEntry
    /\ ret' = Nil
    /\ log' = NoLog
    /\ fs0' = fs
    /\ disc' = [disc EXCEPT !.raised = FALSE, !.error = Nil, !.result = <<>>]

\* A faulty entry: the connection is not looked at.
CheckSkipped(isConnected) == TRUE

\* if not self.connected: raise RuntimeError(...): TRUE lets the call go on.
\* The same test opens convert_file, discover_agents and
\* list_available_conversions.
CheckConnected(isConnected) == isConnected

\* A faulty handler: only what send_direct_message raises is caught.
CaughtSendErrorsOnly(e) == e = "send"

\* A faulty handler: a bare except, which catches a cancellation too.
CaughtAll(e) == TRUE

\* except Exception as e: a cancellation (asyncio.CancelledError, or the
\* KeyboardInterrupt behind it) is a BaseException and is not caught.
CaughtByExceptException(e) == e # "CancelledError"

\* How convert_file ends when e is raised inside its try block: False
\* returned from the except clause, or e raised to the caller.
Raised(e) ==
    IF CaughtByExceptException(e)
    THEN Returns("False", "exception", e)
    ELSE Returns(e, "raised", Nil)

\* Entry of convert_file up to its first await (inside discover_agents); the
\* caller says what the file system is (fs') when the call is made.
ConvertFileCall(spec, t) ==
    /\ inv' = inv + 1
    /\ call' = spec
    /\ timeout' = t
    /\ fs0' = fs'
    /\ agents' = <<>>
    /\ agent_id' = Nil
    /\ ticks' = 0
    /\ response' = NoEntry
    /\ calls' = Append(calls, spec)
    /\ IF ~CheckConnected(connected)
       THEN Returns("RuntimeError", "none", Nil)
       ELSE IF ~Exists(fs', spec.input_file)
       THEN Returns("FileNotFoundError", "none", Nil)
       ELSE pc' = "discovering" /\ ret' = Nil /\ log' = NoLog /\ rets' = rets
    /\ UNCHANGED << reads, sent, conversion_responses, disc >>

\* discover_agents on a connected client: the adapter's answer, or [] when
\* the adapter raised.
DiscoverAgents(answer, raised) == IF raised THEN <<>> ELSE answer

\* The record of a finished discover_agents call that queried the adapter.
Queried(answer, raised) ==
    [disc EXCEPT !.queries = @ + 1, !.raised = raised, !.error = Nil,
                 !.result = DiscoverAgents(answer, raised)]

\* A faulty selection: the last agent of the list.
SelectLastAgent(found) == found[Len(found)]

\* target_agent = agents[0]
SelectAgent(found) == found[1]

\* A faulty order: the input file read whatever discovery answered.
ReadsInputAlways(found) == TRUE

\* The input file is read once an agent with an agent_id is selected.
ReadsInput(found) == found # <<>> /\ SelectAgent(found) # Nil

\* A faulty request: the prompt key is set whatever the prompt is.
RequestContentWithPrompt(spec, data) ==
    [file_data |-> B64Encode(data), filename |-> spec.input_file.name,
     source_format |-> spec.source_format, target_format |-> spec.target_format,
     prompt |-> spec.prompt]

RequestContent(spec, data) ==
    [file_data |-> B64Encode(data), filename |-> spec.input_file.name,
     source_format |-> spec.source_format, target_format |-> spec.target_format,
     prompt |-> IF Truthy(spec.prompt) THEN spec.prompt ELSE Nil]

\* A faulty dispatch: the stale entry is left in place.
ClearNothing(responses, id) == responses

\* if agent_id in self.conversion_responses: del ...
ClearEntry(responses, id) == [responses EXCEPT ![id] = NoEntry]

\* From the answer of discovery to the await of send_direct_message.
DiscoveryReturns ==
    /\ pc = "discovering"
    /\ \E answer \in DiscoveryAnswers, raised \in BOOLEAN :
         LET found == DiscoverAgents(answer, raised) IN
         /\ agents' = found
         /\ disc' = [Queried(answer, raised) EXCEPT
                        !.asked = << call.source_format, call.target_format >>]
         /\ reads' = IF ReadsInput(found) THEN reads \cup {inv} ELSE reads
         /\ IF found = <<>>
            THEN /\ Returns("False", "no_agents", Nil)
                 /\ UNCHANGED << agent_id, conversion_responses, sent >>
            ELSE IF SelectAgent(found) = Nil
            THEN /\ Raised("KeyError")
                 /\ UNCHANGED << agent_id, conversion_responses, sent >>
            ELSE /\ agent_id' = SelectAgent(found)
                 /\ conversion_responses' =
                        ClearEntry(conversion_responses, SelectAgent(found))
                 /\ sent' = Append(sent,
                        [to |-> SelectAgent(found), inv |-> inv,
                         stale |-> conversion_responses[SelectAgent(found)]
                                       # NoEntry,
                         content |-> RequestContent(call,
                                         fs.files[call.input_file])])
                 /\ pc' = "sending"
                 /\ UNCHANGED << ret, log, rets >>
    /\ UNCHANGED << clientVars, call, timeout, ticks, response, fs, batch, cli, launcher,
                    inv, fs0, calls, delivered, inbox, main >>

\* A faulty loop: one iteration too many.
LoopBoundPlusOne(t) == t + 1

\* for _ in range(timeout)
LoopBound(t) == t

\* send_direct_message returns (or raises); the wait loop is entered.
SendReturns ==
    /\ pc = "sending"
    /\ \E ok \in BOOLEAN :
         IF ~ok
         THEN Raised("send")
         ELSE IF LoopBound(timeout) = 0
         THEN Returns("False", "timeout", Nil)
         ELSE pc' = "sleeping" /\ UNCHANGED << ret, log, rets >>
    /\ UNCHANGED << clientVars, conversion_responses, call, timeout, agents,
                    agent_id, ticks, response, fs, sent, batch, cli, launcher, inv, fs0,
                    reads, calls, delivered, inbox, main, disc >>

\* A faulty test: any conversion_status at all counts as success.
IsSuccessAnyStatus(r) == Truthy(r.conversion_status) \/ r.success = "True"

\* response.get("conversion_status") == "success" or response.get("success") == True
IsSuccess(r) == r.conversion_status = "success" \/ r.success = "True"

\* A faulty test: whatever is not a success is an error (else for elif).
IsErrorUnlessSuccess(r) ==
    ~(r.conversion_status = "success" \/ r.success = "True")

\* A faulty test: only conversion_status says that the conversion failed.
IsErrorStatusOnly(r) == r.conversion_status = "error"

\* response.get("conversion_status") == "error" or response.get("success") == False
IsError(r) == r.conversion_status = "error" \/ r.success = "False"

\* response.get("file_data") or response.get("output_data")
ConvertedData(r) == IF r.file_data # NoData THEN r.file_data ELSE r.output_data

\* A faulty test: the payload is not looked at before it is decoded.
HasDataAlways(converted_data) == TRUE

\* if not converted_data: ... return False
HasData(converted_data) == converted_data # NoData

\* A faulty lookup: the message is never found.
ErrorMsgDefault(r) == "Unknown error"

\* response.get("error", "Unknown error")
ErrorMsg(r) == IF r.error = Nil THEN "Unknown error" ELSE r.error

\* What the file system does to mkdir and write_bytes.
IoOutcomes == {"ok", "mkdir_error", "write_error"}

\* output_file.parent.mkdir(parents=True, exist_ok=True); output_file.write_bytes(b)
Save(fsNow, out, bytes, io) ==
    IF io = "mkdir_error"
    THEN [ok |-> FALSE, fs |-> fsNow]
    ELSE LET made == MkdirParents(fsNow, Parent(out)) IN
         IF io = "write_error"
         THEN [ok |-> FALSE, fs |-> made]
         ELSE [ok |-> TRUE, fs |-> WriteBytes(made, out, bytes)]

Outcome(done, value, kind, msg, fsNow) ==
    [done |-> done, ret |-> value, kind |-> kind, msg |-> msg, fs |-> fsNow]

\* The body of the wait loop after the sleep, for the entry found under
\* agent_id (NoEntry: none): done = FALSE means the loop goes on.
Observe(entry, io, fsNow, out) ==
    IF entry = NoEntry
    THEN Outcome(FALSE, Nil, "none", Nil, fsNow)
    ELSE IF IsSuccess(entry)
    THEN LET converted_data == ConvertedData(entry) IN
         IF ~HasData(converted_data)
         THEN Outcome(TRUE, "False", "no_data", Nil, fsNow)
         ELSE LET decoded == B64Decode(converted_data) IN
              IF ~decoded.ok
              THEN Outcome(TRUE, "False", "save_error", "decode", fsNow)
              ELSE LET saved == Save(fsNow, out, decoded.bytes, io) IN
                   IF saved.ok
                   THEN Outcome(TRUE, "True", "none", Nil, saved.fs)
                   ELSE Outcome(TRUE, "False", "save_error", io, saved.fs)
    ELSE IF IsError(entry)
    THEN Outcome(TRUE, "False", "conversion_failed", ErrorMsg(entry), fsNow)
    ELSE Outcome(FALSE, Nil, "none", Nil, fsNow)

\* asyncio.sleep(1) returns: one iteration of the wait loop, and the
\* timeout return when it was the last.
PollTick ==
    /\ pc = "sleeping"
    /\ ticks' = ticks + 1
    /\ response' = IF conversion_responses[agent_id] # NoEntry
                   THEN conversion_responses[agent_id] ELSE response
    /\ \E io \in IoOutcomes :
         LET o == Observe(conversion_responses[agent_id], io, fs, call.output_file) IN
         IF o.done
         THEN Returns(o.ret, o.kind, o.msg) /\ fs' = o.fs
         ELSE IF ticks + 1 >= LoopBound(timeout)
         THEN Returns("False", "timeout", Nil) /\ fs' = fs
         ELSE UNCHANGED << pc, ret, log, fs, rets >>
    /\ inbox' = [inbox EXCEPT !.owed = 0]
    /\ UNCHANGED << clientVars, conversion_responses, call, timeout, agents,
                    agent_id, sent, batch, cli, launcher, inv, fs0, reads, calls,
                    delivered, main, disc >>

\* The run is cancelled while convert_file waits at one of its awaits
\* (discovery, send, sleep): CancelledError is raised there, inside the try
\* block.
Cancel ==
    /\ cli.pc = "calling"
    /\ ~cli.cancelled
    /\ pc \in {"discovering", "sending", "sleeping"}
    /\ Raised("CancelledError")
    /\ cli' = [cli EXCEPT !.cancelled = TRUE]
    /\ UNCHANGED << clientVars, conversion_responses, call, timeout, agents,
                    agent_id, ticks, response, fs, sent, batch, launcher, inv, fs0, reads,
                    calls, delivered, inbox, main, disc >>

\* A faulty loop: convert_file started and not awaited.
NotAwaited(position) == TRUE

\* success = await self.convert_file(...): the loop goes on when the call
\* has returned or raised.
Awaited(position) == position = "returned"

\* A faulty loop: no try/except around convert_file.
StopsAtException(value) == value \in {"True", "False"}

\* try: ... except Exception: results.append(False)
CatchesException(value) == TRUE

(***************************************************************************)
(* A program that converts one file                                        *)
(***************************************************************************)
\* The program: it connects (or not), calls convert_file once, takes the
\* outcome and disconnects.
CallConnect ==
    /\ main = "start"
    /\ connect_ret = Nil
    /\ \E outcome \in ConnectOutcomes : Connect(outcome)
    /\ UNCHANGED << conversion_responses, cfVars, fs, sent, batch, cli, launcher, delivered, inbox,
                    main >>

CallConvertFile ==
    /\ main = "start"
    /\ fs' = fs
    /\ \E spec \in FileSpecs, t \in 0..MaxTimeout : ConvertFileCall(spec, t)
    /\ main' = "calling"
    /\ UNCHANGED << clientVars, batch, cli, launcher, delivered, inbox >>

TakeOutcome ==
    /\ main = "calling"
    /\ pc = "returned"
    /\ main' = "done"
    /\ FrameGone
    /\ UNCHANGED << clientVars, conversion_responses, fs, sent, batch, cli, launcher, inv,
                    reads, calls, rets, delivered, inbox >>

CallDisconnect ==
    /\ main = "done"
    /\ Disconnect
    /\ main' = "closed"
    /\ UNCHANGED << conversion_responses, cfVars, fs, sent, batch, cli, launcher, delivered, inbox >>

Init ==
    /\ InitClient
    /\ main = "start"
    /\ batch = NoBatch
    /\ cli = NoCli
    /\ launcher = NoLauncher

Next ==
    \/ CallConnect
    \/ Deliver
    \/ CallConvertFile
    \/ DiscoveryReturns
    \/ SendReturns
    \/ PollTick
    \/ TakeOutcome
    \/ CallDisconnect

Spec == Init /\ [][Next]_vars

(***************************************************************************)
(* A program that calls one method of a client it may not have connected,  *)
(* or has already disconnected                                             *)
(***************************************************************************)
ApiConnect ==
    /\ main = "api"
    /\ connect_ret = Nil
    /\ net.disconnect_calls = 0
    /\ \E outcome \in ConnectOutcomes : Connect(outcome)
    /\ UNCHANGED << conversion_responses, cfVars, fs, sent, batch, cli, launcher, delivered, inbox,
                    main >>

ApiDisconnect ==
    /\ main = "api"
    /\ net.disconnect_calls = 0
    /\ Disconnect
    /\ UNCHANGED << conversion_responses, cfVars, fs, sent, batch, cli, launcher, delivered, inbox,
                    main >>

ApiConvertFile ==
    /\ main = "api"
    /\ fs' = fs
    /\ \E spec \in FileSpecs, t \in 0..MaxBatchTimeout : ConvertFileCall(spec, t)
    /\ main' = "api_calling"
    /\ UNCHANGED << clientVars, batch, cli, launcher, delivered, inbox >>

ApiTakeOutcome ==
    /\ main = "api_calling"
    /\ pc = "returned"
    /\ main' = "api_done"
    /\ UNCHANGED << clientVars, conversion_responses, cfVars, fs, sent, batch,
                    cli, launcher, delivered, inbox >>

\* common_formats of list_available_conversions
CommonFormats ==
    {"text/plain", "text/markdown", "text/html", "application/pdf",
     "image/png", "image/jpeg", "image/gif", "image/bmp",
     "audio/mp3", "audio/wav", "video/mp4", "application/zip"}

\* The (source, target) pairs list_available_conversions asks about.
FormatPairs == { pair \in CommonFormats \X CommonFormats : pair[1] # pair[2] }

\* A direct call of discover_agents or list_available_conversions up to its
\* first await: it raises on a client that is not connected, else it has
\* `queries` adapter queries to make.
QueryCall(op, queries) ==
    /\ main = "api"
    /\ IF ~CheckConnected(connected)
       THEN /\ disc' = [disc EXCEPT !.op = op, !.calls = @ + 1, !.pending = 0,
                                    !.raised = FALSE, !.error = "RuntimeError",
                                    !.result = <<>>]
            /\ main' = "api_done"
       ELSE /\ disc' = [disc EXCEPT !.op = op, !.calls = @ + 1,
                                    !.pending = queries, !.raised = FALSE,
                                    !.error = Nil, !.result = <<>>]
            /\ main' = "querying"
    /\ UNCHANGED << clientVars, conversion_responses, pc, call, timeout, agents,
                    agent_id, ticks, response, ret, log, inv, fs0, reads, calls,
                    rets, fs, sent, batch, cli, launcher, delivered, inbox >>

\* The program calls client.discover_agents(source, target).
CallDiscoverAgents == QueryCall("discover_agents", 1)

\* The program calls client.discover_agents(source, target) a second time
\* right after the first call returned, with the same pair of formats.
CallDiscoverAgentsAgain ==
    /\ main = "api_done"
    /\ disc.op = "discover_agents"
    /\ disc.calls = 1
    /\ disc.error = Nil
    /\ disc' = [disc EXCEPT !.calls = 2, !.pending = 1, !.raised = FALSE,
                            !.first = disc.result, !.result = <<>>]
    /\ main' = "querying"
    /\ UNCHANGED << clientVars, conversion_responses, pc, call, timeout, agents,
                    agent_id, ticks, response, ret, log, inv, fs0, reads, calls,
                    rets, fs, sent, batch, cli, launcher, delivered, inbox >>

\* The program calls client.list_available_conversions().
CallListAvailableConversions ==
    QueryCall("list_available_conversions", Cardinality(FormatPairs))

\* The adapter answers one query (or raises): discover_agents returns, and
\* the program's call returns when that was its last query.  The table
\* list_available_conversions builds is not kept.  What the agents
\* advertise for one pair of formats does not change between the two
\* discover_agents calls; whether the query gets through may.
QueryReturns ==
    /\ main = "querying"
    /\ \E answer \in IF disc.op = "discover_agents" /\ disc.known
                      THEN {disc.advertised} ELSE DiscoveryAnswers,
          raised \in BOOLEAN :
         disc' = [Queried(answer, raised) EXCEPT
                     !.pending = @ - 1,
                     !.known = disc.op = "discover_agents",
                     !.advertised = IF disc.op = "discover_agents"
                                    THEN answer ELSE <<>>]
    /\ main' = IF disc.pending = 1 THEN "api_done" ELSE "querying"
    /\ UNCHANGED << clientVars, conversion_responses, pc, call, timeout, agents,
                    agent_id, ticks, response, ret, log, inv, fs0, reads, calls,
                    rets, fs, sent, batch, cli, launcher, delivered, inbox >>

ApiInit ==
    /\ InitClient
    /\ main = "api"
    /\ batch = NoBatch
    /\ cli = NoCli
    /\ launcher = NoLauncher

ApiNext ==
    \/ ApiConnect
    \/ ApiDisconnect
    \/ DeliverReply
    \/ ApiConvertFile
    \/ DiscoveryReturns
    \/ SendReturns
    \/ PollTick
    \/ ApiTakeOutcome
    \/ CallDiscoverAgents
    \/ CallDiscoverAgentsAgain
    \/ CallListAvailableConversions
    \/ QueryReturns

ApiSpec == ApiInit /\ [][ApiNext]_vars

(***************************************************************************)
(* convert_files_batch                                                     *)
(***************************************************************************)
\* The program connects (or not) before it hands over a batch.
BatchConnect ==
    /\ batch.pc = "idle"
    /\ connect_ret = Nil
    /\ \E outcome \in ConnectOutcomes : Connect(outcome)
    /\ UNCHANGED << conversion_responses, cfVars, fs, sent, batch, cli, launcher, delivered, inbox,
                    main >>

\* The lists handed to convert_files_batch: up to MaxFiles distinct files.
BatchLists ==
    { files \in SeqsUpTo(FileSpecs, MaxFiles) :
        \A i, j \in 1..Len(files) : files[i] = files[j] => i = j }

\* The program calls convert_files_batch(files, timeout).
BatchStart ==
    /\ batch.pc = "idle"
    /\ \E files \in BatchLists, t \in 0..MaxBatchTimeout :
         batch' = [pc |-> "loop", files |-> files, i |-> 1, results |-> <<>>,
                   timeout |-> t]
    /\ UNCHANGED << clientVars, conversion_responses, cfVars, fs, sent, cli, launcher,
                    delivered, inbox, main >>

\* The loop calls convert_file for the next file.
BatchCall ==
    /\ batch.pc = "loop"
    /\ batch.i <= Len(batch.files)
    /\ fs' = fs
    /\ ConvertFileCall(batch.files[batch.i], batch.timeout)
    /\ batch' = [batch EXCEPT !.pc = "calling"]
    /\ UNCHANGED << clientVars, cli, launcher, delivered, inbox, main >>

\* convert_file returned or raised: its outcome is appended.
BatchAppend ==
    /\ batch.pc = "calling"
    /\ Awaited(pc)
    /\ batch' = IF CatchesException(ret)
                THEN [batch EXCEPT !.pc = "loop", !.i = @ + 1,
                                   !.results = Append(@, ret = "True")]
                ELSE [batch EXCEPT !.pc = "raised"]
    /\ FrameGone
    /\ UNCHANGED << clientVars, conversion_responses, fs, sent, cli, launcher, inv, reads,
                    calls, rets, delivered, inbox, main >>

\* return results
BatchReturn ==
    /\ batch.pc = "loop"
    /\ batch.i > Len(batch.files)
    /\ batch' = [batch EXCEPT !.pc = "done"]
    /\ UNCHANGED << clientVars, conversion_responses, cfVars, fs, sent, cli, launcher,
                    delivered, inbox, main >>

\* The program calls client.disconnect() after the batch.
BatchDisconnect ==
    /\ batch.pc = "done"
    /\ Disconnect
    /\ batch' = [batch EXCEPT !.pc = "closed"]
    /\ UNCHANGED << conversion_responses, cfVars, fs, sent, cli, launcher, delivered, inbox, main >>

BatchInit ==
    /\ InitClient
    /\ main = "off"
    /\ batch = [NoBatch EXCEPT !.pc = "idle"]
    /\ cli = NoCli
    /\ launcher = NoLauncher

BatchNext ==
    \/ BatchConnect
    \/ DeliverReply
    \/ BatchStart
    \/ BatchCall
    \/ DiscoveryReturns
    \/ SendReturns
    \/ PollTick
    \/ BatchAppend
    \/ BatchReturn
    \/ BatchDisconnect

BatchSpec == BatchInit /\ [][BatchNext]_vars

(***************************************************************************)
(* The command line: format lookups, output planning, convert_files        *)
(***************************************************************************)
\* mimetypes.types_map: the entries for the suffixes of the model, in the
\* order of the table.
TypesMap ==
    << <<".json", "application/json">>, <<".pdf", "application/pdf">>,
       <<".txt", "text/plain">>, <<".html", "text/html">>,
       <<".md", "text/markdown">>, <<".png", "image/png">>,
       <<".jpg", "image/jpeg">>, <<".jpeg", "image/jpeg">>,
       <<".d", "text/x-dsrc">>, <<".bin", "application/octet-stream">>,
       <<".xsl", "application/xml">>, <<".xml", "text/xml">>,
       <<".wav", "audio/x-wav">>, <<".mp3", "audio/mpeg">>,
       <<".doc", "application/msword">>, <<".zip", "application/zip">> >>

\* str.lower() on the suffixes of the model.
Lower(suffix) ==
    CASE suffix = ".TXT" -> ".txt"
      [] suffix = ".Md" -> ".md"
      [] suffix = ".RAR" -> ".rar"
      [] suffix = ".XYZ" -> ".xyz"
      [] OTHER -> suffix

\* mimetypes.guess_type(path)[0]
\* (the suffix is looked up as it is, then in lower case)
GuessType(suffix) ==
    LET hits == { k \in 1..Len(TypesMap) : TypesMap[k][1] = suffix }
        lower_hits == { k \in 1..Len(TypesMap) : TypesMap[k][1] = Lower(suffix) }
    IN  IF hits # {}
        THEN TypesMap[CHOOSE k \in hits : \A j \in hits : k <= j][2]
        ELSE IF lower_hits # {}
        THEN TypesMap[CHOOSE k \in lower_hits : \A j \in lower_hits : k <= j][2]
        ELSE Nil

\* common_types of detect_mime_type
CommonTypes ==
    [ext \in {".txt", ".md", ".html", ".json", ".xml", ".pdf", ".doc", ".docx",
              ".png", ".jpg", ".jpeg", ".gif", ".bmp", ".svg", ".mp3", ".wav",
              ".mp4", ".avi", ".zip", ".rar"} |->
        CASE ext = ".txt" -> "text/plain"
          [] ext = ".md" -> "text/markdown"
          [] ext = ".html" -> "text/html"
          [] ext = ".json" -> "application/json"
          [] ext = ".xml" -> "application/xml"
          [] ext = ".pdf" -> "application/pdf"
          [] ext = ".doc" -> "application/msword"
          [] ext = ".docx" ->
               "application/vnd.openxmlformats-officedocument.wordprocessingml.document"
          [] ext = ".png" -> "image/png"
          [] ext \in {".jpg", ".jpeg"} -> "image/jpeg"
          [] ext = ".gif" -> "image/gif"
          [] ext = ".bmp" -> "image/bmp"
          [] ext = ".svg" -> "image/svg+xml"
          [] ext = ".mp3" -> "audio/mpeg"
          [] ext = ".wav" -> "audio/wav"
          [] ext = ".mp4" -> "video/mp4"
          [] ext = ".avi" -> "video/x-msvideo"
          [] ext = ".zip" -> "application/zip"
          [] OTHER -> "application/x-rar-compressed"]

\* A faulty fallback: no format at all for a suffix that is not known.
DetectMimeTypeOrNone(path) ==
    LET guessed == GuessType(path.name.suffix)
        ext == Lower(path.name.suffix)
    IN  IF guessed # Nil THEN guessed
        ELSE IF ext \in DOMAIN CommonTypes THEN CommonTypes[ext]
        ELSE Nil

DetectMimeType(path) ==
    LET guessed == GuessType(path.name.suffix)
        ext == Lower(path.name.suffix)
    IN  IF guessed # Nil THEN guessed
        ELSE IF ext \in DOMAIN CommonTypes THEN CommonTypes[ext]
        ELSE "application/octet-stream"

\* ext_map of convert_files
ExtMap ==
    [mime \in {"text/plain", "text/markdown", "text/html", "application/pdf",
               "image/png", "image/jpeg", "application/json"} |->
        CASE mime = "text/plain" -> ".txt"
          [] mime = "text/markdown" -> ".md"
          [] mime = "text/html" -> ".html"
          [] mime = "application/pdf" -> ".pdf"
          [] mime = "image/png" -> ".png"
          [] mime = "image/jpeg" -> ".jpg"
          [] OTHER -> ".json"]

\* A faulty lookup: no table is consulted.
ExtensionForOut(target_format) == ".out"

\* The extension convert_files picks for a target format.
ExtensionFor(target_format) ==
    LET hits == { k \in 1..Len(TypesMap) : TypesMap[k][2] = target_format } IN
    IF hits # {}
    THEN TypesMap[CHOOSE k \in hits : \A j \in hits : k <= j][1]
    ELSE IF target_format \in DOMAIN ExtMap THEN ExtMap[target_format]
    ELSE ".out"

\* A faulty plan: the output target is the directory, whatever its name.
OutputDirAsGiven(output_path) == AsDir(output_path)

\* The directory the outputs of several input files go to.
OutputDir(output_path) ==
    IF output_path.name.suffix # ""
    THEN Append(Parent(output_path), N(output_path.name.stem, ""))
    ELSE AsDir(output_path)

\* output_file of one loop iteration
PlanOutput(input_files, input_file, output_path, target_format) ==
    IF Len(input_files) = 1
    THEN output_path
    ELSE [dir |-> OutputDir(output_path),
          name |-> N(input_file.name.stem, ExtensionFor(target_format))]

\* timeout: int = 60 of OpenConvertClient.convert_file
DefaultTimeout == 60

\* The calls of convert_files the model follows.
CliArgs ==
    { CliArg(<< HelloTxt >>, P(<<>>, "hello", ".md"), Nil, Nil, Nil),
      CliArg(<< InA, InSubA >>, P(<<>>, "converted", ""), "text/plain",
             "text/markdown", "add a title"),
      CliArg(<< InA, GoneTxt >>, P(<<>>, "out", ".d"), Nil, "application/pdf", ""),
      CliArg(<< >>, P(<<>>, "out", ".md"), Nil, Nil, Nil) }

\* Path.is_file(), Path.is_dir(), Path.exists()
IsFile(fsNow, path) == path \in DOMAIN fsNow.files
IsDir(fsNow, path) == AsDir(path) \in fsNow.dirs
PathExists(fsNow, path) == IsFile(fsNow, path) \/ IsDir(fsNow, path)

\* A faulty validation: only the input path is looked at.
ValidateArgsInputOnly(fsNow, argv) == PathExists(fsNow, argv.input)

\* validate_args
ValidateArgs(fsNow, argv) ==
    /\ PathExists(fsNow, argv.input)
    /\ Parent(argv.output) \in fsNow.dirs
    /\ IsDir(fsNow, argv.input)
         => Truthy(argv.from_format) /\ Truthy(argv.to_format)

\* The files of a set as rglob('*') yields them: those of a directory
\* before those of the directories below it.
RECURSIVE InWalkOrder(_)
InWalkOrder(files) ==
    IF files = {} THEN <<>>
    ELSE LET first == CHOOSE f \in files :
                          \A g \in files : Len(f.dir) <= Len(g.dir)
         IN  <<first>> \o InWalkOrder(files \ {first})

\* get_input_files
GetInputFiles(fsNow, input_path, from_format) ==
    IF IsFile(fsNow, input_path) THEN << input_path >>
    ELSE IF IsDir(fsNow, input_path)
    THEN LET d == AsDir(input_path)
             below == { f \in DOMAIN fsNow.files :
                          /\ Len(f.dir) >= Len(d)
                          /\ SubSeq(f.dir, 1, Len(d)) = d }
         IN  InWalkOrder({ f \in below :
                             Truthy(from_format)
                                 => DetectMimeType(f) = from_format })
    ELSE <<>>

\* The command lines the model follows.
InDir == P(<<>>, "in", "")
CommandLines ==
    { ArgV(HelloTxt, P(<<>>, "hello", ".md"), Nil, Nil, Nil),
      ArgV(InDir, P(<<>>, "converted", ""), "text/plain", "text/markdown",
           "add a title"),
      ArgV(GoneTxt, BMd, Nil, Nil, Nil),
      ArgV(HelloTxt, OutHelloMd, Nil, Nil, Nil),
      ArgV(InDir, P(<<>>, "converted", ""), Nil, "text/markdown", Nil),
      ArgV(InDir, P(<<>>, "converted", ""), "application/pdf", "text/markdown",
           Nil) }

\* A faulty exit code: success whatever convert_files returned.
ExitCodeZero(result) == 0

\* return 0 if success else 1; 1 when asyncio.run raised (KeyboardInterrupt
\* after a cancellation, or any Exception).
ExitCode(result) == IF result = "True" THEN 0 ELSE 1

\* main() up to asyncio.run(convert_files(...)): it returns 1 when the
\* arguments are not valid or no input file is found.
MainStart ==
    /\ cli.pc = "start"
    /\ \E argv \in CommandLines :
         LET input_files == GetInputFiles(fs, argv.input, argv.from_format) IN
         IF ~ValidateArgs(fs, argv) \/ input_files = <<>>
         THEN cli' = [cli EXCEPT !.argv = argv, !.pc = "exited", !.exit = <<1>>]
         ELSE cli' = [cli EXCEPT !.argv = argv, !.pc = "main_run",
                         !.args = CliArg(input_files, argv.output,
                                         argv.from_format, argv.to_format,
                                         argv.prompt)]
    /\ UNCHANGED << clientVars, conversion_responses, cfVars, fs, sent, batch, launcher,
                    delivered, inbox, main >>

\* asyncio.run returned or raised: main() returns the exit code.
MainExit ==
    /\ cli.pc = "done"
    /\ cli.argv # NoArgV
    /\ cli' = [cli EXCEPT !.pc = "exited", !.exit = << ExitCode(cli.ret) >>]
    /\ UNCHANGED << clientVars, conversion_responses, cfVars, fs, sent, batch, launcher,
                    delivered, inbox, main >>

\* convert_files up to its loop: the client is made and connect() awaited;
\* what connect returns is not looked at.  A cancellation during connect
\* leaves convert_files through its finally clause.
CliConnect ==
    /\ cli.pc \in {"start", "main_run"}
    /\ \E a \in IF cli.pc = "start" THEN CliArgs ELSE {cli.args},
          outcome \in ConnectOutcomes \cup CancelledConnects :
         /\ Connect(outcome)
         /\ cli' = IF outcome \in CancelledConnects
                   THEN [cli EXCEPT !.pc = "finally", !.args = a,
                                    !.ret = "CancelledError", !.cancelled = TRUE]
                   ELSE [cli EXCEPT !.pc = "loop", !.args = a]
    /\ UNCHANGED << conversion_responses, cfVars, fs, sent, batch, launcher, delivered, inbox, main >>

\* One loop iteration up to the first await of convert_file: formats, output
\* path, output directory, the call.  A mkdir that raises ends convert_files
\* in its outer except clause.
CliIter ==
    /\ cli.pc = "loop"
    /\ cli.i <= Len(cli.args.input_files)
    /\ LET a == cli.args
           input_file == a.input_files[cli.i]
           source_format == IF Truthy(a.from_format) THEN a.from_format
                            ELSE DetectMimeType(input_file)
           target_format == IF Truthy(a.to_format) THEN a.to_format
                            ELSE DetectMimeType(a.output_path)
           output_file == PlanOutput(a.input_files, input_file, a.output_path,
                                     target_format)
           several == Len(a.input_files) # 1
       IN \E io \in IF several /\ OutputDir(a.output_path) \notin fs.dirs
                     THEN {"ok", "mkdir_error"} ELSE {"ok"} :
            IF io = "mkdir_error"
            THEN /\ cli' = [cli EXCEPT !.pc = "finally", !.ret = "False"]
                 /\ UNCHANGED << conversion_responses, cfVars, fs, sent >>
            ELSE /\ fs' = IF several THEN MkdirParents(fs, OutputDir(a.output_path))
                          ELSE fs
                 /\ ConvertFileCall(
                        [input_file |-> input_file, output_file |-> output_file,
                         source_format |-> source_format,
                         target_format |-> target_format, prompt |-> a.prompt],
                        DefaultTimeout)
                 /\ cli' = [cli EXCEPT !.pc = "calling"]
    /\ UNCHANGED << clientVars, batch, launcher, delivered, inbox, main >>

\* convert_file returned or raised: the success is counted.
CliAfter ==
    /\ cli.pc = "calling"
    /\ Awaited(pc)
    /\ cli' = IF ret \in {"True", "False"} \/ CaughtByExceptException(ret)
               THEN [cli EXCEPT !.pc = "loop", !.i = @ + 1,
                                !.success_count = IF ret = "True" THEN @ + 1
                                                  ELSE @]
               ELSE [cli EXCEPT !.pc = "finally", !.ret = ret]
    /\ FrameGone
    /\ UNCHANGED << clientVars, conversion_responses, fs, sent, batch, launcher, inv, reads,
                    calls, rets, delivered, inbox, main >>

\* The report after the loop.
CliReport ==
    /\ cli.pc = "loop"
    /\ cli.i > Len(cli.args.input_files)
    /\ cli' = [cli EXCEPT !.pc = "finally",
                          !.ret = IF cli.success_count = Len(cli.args.input_files)
                                  THEN "True"
                                  ELSE IF cli.success_count > 0 THEN "True"
                                  ELSE "False"]
    /\ UNCHANGED << clientVars, conversion_responses, cfVars, fs, sent, batch, launcher,
                    delivered, inbox, main >>

\* finally: await client.disconnect()
CliFinally ==
    /\ cli.pc = "finally"
    /\ Disconnect
    /\ cli' = [cli EXCEPT !.pc = "done"]
    /\ UNCHANGED << conversion_responses, cfVars, fs, sent, batch, launcher, delivered, inbox, main >>

CliInit ==
    /\ InitClient
    /\ main = "off"
    /\ batch = NoBatch
    /\ cli = [NoCli EXCEPT !.pc = "start"]
    /\ launcher = NoLauncher

CliNext ==
    \/ MainStart
    \/ CliConnect
    \/ DeliverReply
    \/ CliIter
    \/ DiscoveryReturns
    \/ SendReturns
    \/ PollTick
    \/ Cancel
    \/ CliAfter
    \/ CliReport
    \/ CliFinally
    \/ MainExit

CliSpec == CliInit /\ [][CliNext]_vars

(***************************************************************************)
(* The two format lookups on their own: the formats and the output file of *)
(* one loop iteration of convert_files, and the format detected for the    *)
(* planned output file                                                     *)
(***************************************************************************)
\* Input files by suffix: known to mimetypes, known to common_types only,
\* known in lower case only, not known, none.
FormatSuffixes ==
    { ".txt", ".TXT", ".Md", ".jpeg", ".xml", ".wav", ".rar", ".RAR", ".xyz",
      ".XYZ", "" }
FormatPaths == { P(<<>>, "a", x) : x \in FormatSuffixes }

\* Target formats: those of the three tables, and one of none.
Formats ==
    { TypesMap[k][2] : k \in 1..Len(TypesMap) } \cup DOMAIN ExtMap
        \cup { CommonTypes[x] : x \in DOMAIN CommonTypes }
        \cup { "application/x-unknown" }

\* One iteration of the loop of convert_files up to output_file, for one of
\* several input files, with --to given and --from not.
FormatPlan ==
    /\ main = "formats"
    /\ \E input_file \in FormatPaths, to_format \in Formats :
         call' = [input_file |-> input_file,
                  output_file |-> PlanOutput(<< input_file, input_file >>,
                                             input_file,
                                             P(<<>>, "converted", ""), to_format),
                  source_format |-> DetectMimeType(input_file),
                  target_format |-> to_format, prompt |-> Nil]
    /\ main' = "formats_planned"
    /\ UNCHANGED << clientVars, conversion_responses, pc, timeout, agents,
                    agent_id, ticks, response, ret, log, fs, sent, batch, cli, launcher,
                    inv, fs0, reads, calls, rets, delivered, inbox, disc >>

\* detect_mime_type applied to the planned output file.
FormatDetect ==
    /\ main = "formats_planned"
    /\ ret' = DetectMimeType(call.output_file)
    /\ main' = "formats_done"
    /\ UNCHANGED << clientVars, conversion_responses, pc, call, timeout, agents,
                    agent_id, ticks, response, log, fs, sent, batch, cli, launcher, inv,
                    fs0, reads, calls, rets, delivered, inbox, disc >>

FormatInit ==
    /\ InitClient
    /\ main = "formats"
    /\ batch = NoBatch
    /\ cli = NoCli
    /\ launcher = NoLauncher

FormatNext == FormatPlan \/ FormatDetect

FormatSpec == FormatInit /\ [][FormatNext]_vars

(***************************************************************************)
(* scripts/launch_agents.py: start_agent, stop_agent, restart_agents        *)
(***************************************************************************)
\* os.kill(pid, 0) does not raise: the process exists.
ProcessAlive(l, pid) == pid \in 1..Len(l.procs) /\ l.procs[pid].alive

\* A faulty check: no category is ever found running.
NeverRunning(l, category) == FALSE

\* What is_agent_running returns.
IsAgentRunning(l, category) ==
    l.pidfile[category] # 0 /\ ProcessAlive(l, l.pidfile[category])

\* pid_file.unlink(missing_ok=True)
Unlink(l, category) == [l EXCEPT !.pidfile[category] = 0]

\* What is_agent_running leaves: the pid file of a dead process is removed.
AfterIsAgentRunning(l, category) ==
    IF l.pidfile[category] # 0 /\ ~IsAgentRunning(l, category)
    THEN Unlink(l, category)
    ELSE l

\* start_agent or stop_agent returns after printing its message.
LauncherReturns(l, value, message) ==
    [l EXCEPT !.pc = "returned", !.returned = value, !.said = message,
              !.pid = 0, !.i = 0]

\* subprocess.Popen succeeded: a new process of the category runs.
Spawned(l, category) ==
    [l EXCEPT !.procs = Append(@, [category |-> category, alive |-> TRUE,
                                   recorded |-> FALSE, signals |-> <<>>])]

\* os.kill(pid, sig) on a live process, after `checks` grace checks that
\* found it alive.  SIGKILL ends the process; SIGTERM asks it to end.
Signalled(l, pid, sig, checks) ==
    [l EXCEPT !.procs[pid].signals = Append(@, [sig |-> sig, checks |-> checks]),
              !.procs[pid].alive = IF sig = "SIGKILL" THEN FALSE ELSE @]

\* start_agent up to time.sleep(2): the running check, Popen, the pid file.
\* Popen may raise, and so may writing the pid file after Popen succeeded.
StartAgentBody(category) ==
    LET l0 == [launcher EXCEPT !.op = "start", !.category = category,
                               !.had = launcher.pidfile[category] # 0]
        l1 == AfterIsAgentRunning(l0, category)
    IN  IF IsAgentRunning(l0, category)
        THEN launcher' = LauncherReturns(l1, "False", "already running")
        ELSE \E outcome \in {"popen_raises", "write_raises", "written"} :
               launcher' =
                 IF outcome = "popen_raises"
                 THEN LauncherReturns(Unlink(l1, category), "False", "Error starting")
                 ELSE IF outcome = "write_raises"
                 THEN LauncherReturns(Unlink(Spawned(l1, category), category), "False",
                              "Error starting")
                 ELSE LET l2 == Spawned(l1, category)
                          pid == Len(l2.procs)
                      IN  [l2 EXCEPT !.pidfile[category] = pid,
                                     !.procs[pid].recorded = TRUE,
                                     !.pid = pid, !.pc = "start_sleep"]

\* stop_agent up to its grace loop: the running check, the pid read, SIGTERM.
\* The process may be gone when SIGTERM is sent: os.kill raises OSError.
StopAgentBody(category, restart) ==
    LET l0 == [launcher EXCEPT !.op = "stop", !.category = category,
                               !.restart = restart,
                               !.had = launcher.pidfile[category] # 0]
        l1 == AfterIsAgentRunning(l0, category)
        pid == l1.pidfile[category]
    IN  IF ~IsAgentRunning(l0, category)
        THEN launcher' = LauncherReturns(l1, "False", "not running")
        ELSE \E gone \in BOOLEAN :
               launcher' =
                 IF gone
                 THEN LauncherReturns(Unlink([l1 EXCEPT !.procs[pid].alive = FALSE],
                                     category),
                              "False", "Failed to stop")
                 ELSE [Signalled(l1, pid, "SIGTERM", 0) EXCEPT
                          !.pid = pid, !.i = 0,
                          !.pc = IF GraceLoopEnds(0) THEN "stop_final"
                                 ELSE "stop_grace"]

LauncherFrame ==
    UNCHANGED << main, connect_ret, connected, session, conversion_responses,
                 pc, call, timeout, agents, agent_id, ticks, response, ret, log,
                 fs, sent, batch, cli, inv, fs0, reads, calls, rets, delivered,
                 net, disc, inbox >>

\* python launch_agents.py start <category>
StartAgent ==
    /\ launcher.pc = "idle"
    /\ Len(launcher.procs) < MaxSpawns
    /\ \E category \in Categories : StartAgentBody(category)
    /\ LauncherFrame

\* start_agent after time.sleep(2): process.poll() tells whether the child
\* still runs; the pid file of a child that ended is removed.
StartCheck ==
    /\ launcher.pc = "start_sleep"
    /\ launcher' =
         IF ProcessAlive(launcher, launcher.pid)
         THEN LauncherReturns(launcher, "True", "started")
         ELSE LauncherReturns(Unlink(launcher, launcher.category), "False",
                      "Failed to start")
    /\ LauncherFrame

\* python launch_agents.py stop <category>
StopAgent ==
    /\ launcher.pc = "idle"
    /\ \E category \in Categories : StopAgentBody(category, FALSE)
    /\ LauncherFrame

\* python launch_agents.py restart <category>: stop_agent first
RestartAgents ==
    /\ launcher.pc = "idle"
    /\ Len(launcher.procs) < MaxSpawns
    /\ \E category \in Categories : StopAgentBody(category, TRUE)
    /\ LauncherFrame

\* restart_agents after stop_agent returned and time.sleep(1): start_agent
RestartStart ==
    /\ launcher.pc = "returned"
    /\ launcher.op = "stop"
    /\ launcher.restart
    /\ StartAgentBody(launcher.category)
    /\ LauncherFrame

\* One iteration of the grace loop: os.kill(pid, 0), then time.sleep(1) if
\* the process is there, break if it is not.
StopGraceCheck ==
    /\ launcher.pc = "stop_grace"
    /\ launcher' =
         IF ProcessAlive(launcher, launcher.pid)
         THEN [launcher EXCEPT !.i = @ + 1,
                               !.pc = IF GraceLoopEnds(launcher.i + 1)
                                      THEN "stop_final" ELSE "stop_grace"]
         ELSE [launcher EXCEPT !.pc = "stop_final"]
    /\ LauncherFrame

\* After the loop: SIGKILL if the process is still there, the pid file is
\* removed, stop_agent returns True.
StopFinal ==
    /\ launcher.pc = "stop_final"
    /\ launcher' =
         LET l == IF ProcessAlive(launcher, launcher.pid)
                  THEN Signalled(launcher, launcher.pid, "SIGKILL", launcher.i)
                  ELSE launcher
         IN  LauncherReturns(Unlink(l, launcher.category), "True", "stopped")
    /\ LauncherFrame

\* The command is done: the launcher exits, the next command starts afresh.
CommandDone ==
    /\ launcher.pc = "returned"
    /\ ~(launcher.op = "stop" /\ launcher.restart)
    /\ launcher' = [launcher EXCEPT !.pc = "idle", !.restart = FALSE]
    /\ LauncherFrame

\* An agent process ends, of itself or on SIGTERM.
ProcessExits ==
    /\ launcher.pc # "off"
    /\ \E pid \in 1..Len(launcher.procs) :
         /\ launcher.procs[pid].alive
         /\ launcher' = [launcher EXCEPT !.procs[pid].alive = FALSE]
    /\ LauncherFrame

LauncherInit ==
    /\ InitClient
    /\ main = "launcher"
    /\ batch = NoBatch
    /\ cli = NoCli
    /\ launcher = [NoLauncher EXCEPT !.pc = "idle"]

LauncherNext ==
    \/ StartAgent
    \/ StartCheck
    \/ StopAgent
    \/ RestartAgents
    \/ RestartStart
    \/ StopGraceCheck
    \/ StopFinal
    \/ CommandDone
    \/ ProcessExits

LauncherSpec == LauncherInit /\ [][LauncherNext]_vars

(***************************************************************************)
(* convert_file statement by statement on the event loop: the membership   *)
(* tests on the response map are steps of their own                        *)
(***************************************************************************)
\* A faulty schedule: the callback runs on a thread of its own, at any point
\* of convert_file.
RunsAnywhere(position) == TRUE

\* The event loop runs the callback only while convert_file is suspended at
\* an await (discovery, send, sleep) or is not running: between a membership
\* test and the del or read after it there is no await.
Suspended(position) ==
    position \in {"idle", "discovering", "sending", "sleeping", "returned"}

StepConnect ==
    /\ main = "steps_start"
    /\ Connect("ok")
    /\ main' = "steps"
    /\ UNCHANGED << conversion_responses, cfVars, fs, sent, batch, cli, launcher,
                    delivered, inbox >>

\* The messaging adapter's task runs the callback.
StepDeliver ==
    /\ main = "steps"
    /\ Suspended(pc)
    /\ delivered < MaxDeliveries
    /\ \E s \in Agents, b \in ReplyBodies :
         \E r \in Answerable(s) : HandleConversionResponse(Tag(b, s, r), s)

StepCall ==
    /\ main = "steps"
    /\ pc = "idle"
    /\ inv = 0
    /\ fs' = fs
    /\ \E spec \in FileSpecs, t \in 0..MaxTimeout : ConvertFileCall(spec, t)
    /\ UNCHANGED << clientVars, batch, cli, launcher, delivered, inbox, main >>

\* The request as it is handed to send_direct_message.
Dispatch(id, stale) ==
    /\ sent' = Append(sent,
                   [to |-> id, inv |-> inv, stale |-> stale,
                    content |-> RequestContent(call, fs.files[call.input_file])])
    /\ pc' = "sending"

\* From the answer of discovery to the test `agent_id in
\* self.conversion_responses`, and on to the send when the test fails.
StepDiscovery ==
    /\ pc = "discovering"
    /\ \E answer \in DiscoveryAnswers, raised \in BOOLEAN :
         LET found == DiscoverAgents(answer, raised) IN
         /\ agents' = found
         /\ disc' = [Queried(answer, raised) EXCEPT
                        !.asked = << call.source_format, call.target_format >>]
         /\ reads' = IF ReadsInput(found) THEN reads \cup {inv} ELSE reads
         /\ IF found = <<>>
            THEN /\ Returns("False", "no_agents", Nil)
                 /\ UNCHANGED << agent_id, sent >>
            ELSE IF SelectAgent(found) = Nil
            THEN /\ Raised("KeyError")
                 /\ UNCHANGED << agent_id, sent >>
            ELSE /\ agent_id' = SelectAgent(found)
                 /\ IF conversion_responses[SelectAgent(found)] # NoEntry
                    THEN pc' = "clear_found" /\ sent' = sent
                    ELSE Dispatch(SelectAgent(found), FALSE)
                 /\ UNCHANGED << ret, log, rets >>
    /\ UNCHANGED << clientVars, conversion_responses, call, timeout, ticks,
                    response, fs, batch, cli, launcher, inv, fs0, calls, delivered, inbox,
                    main >>

\* del self.conversion_responses[agent_id], and on to the send.
StepClear ==
    /\ pc = "clear_found"
    /\ conversion_responses' = ClearEntry(conversion_responses, agent_id)
    /\ Dispatch(agent_id, TRUE)
    /\ UNCHANGED << clientVars, call, timeout, agents, agent_id, ticks,
                    response, ret, log, fs, batch, cli, launcher, inv, fs0, reads, calls,
                    rets, delivered, inbox, main, disc >>

\* asyncio.sleep(1) returns and `agent_id in self.conversion_responses` is
\* tested; without an entry the loop goes on or ends in the timeout.
StepWake ==
    /\ pc = "sleeping"
    /\ ticks' = ticks + 1
    /\ IF conversion_responses[agent_id] # NoEntry
       THEN pc' = "poll_found" /\ UNCHANGED << ret, log, rets >>
       ELSE IF ticks + 1 >= LoopBound(timeout)
       THEN Returns("False", "timeout", Nil)
       ELSE UNCHANGED << pc, ret, log, rets >>
    /\ inbox' = [inbox EXCEPT !.owed = 0]
    /\ UNCHANGED << clientVars, conversion_responses, call, timeout, agents,
                    agent_id, response, fs, sent, batch, cli, launcher, inv, fs0, reads,
                    calls, delivered, main, disc >>

\* response = self.conversion_responses[agent_id] and the rest of the loop
\* body.
StepRead ==
    /\ pc = "poll_found"
    /\ response' = conversion_responses[agent_id]
    /\ \E io \in IoOutcomes :
         LET o == Observe(conversion_responses[agent_id], io, fs,
                          call.output_file) IN
         IF o.done
         THEN Returns(o.ret, o.kind, o.msg) /\ fs' = o.fs
         ELSE IF ticks >= LoopBound(timeout)
         THEN Returns("False", "timeout", Nil) /\ fs' = fs
         ELSE pc' = "sleeping" /\ UNCHANGED << ret, log, fs, rets >>
    /\ UNCHANGED << clientVars, conversion_responses, call, timeout, agents,
                    agent_id, ticks, sent, batch, cli, launcher, inv, fs0, reads, calls,
                    delivered, inbox, main, disc >>

StepInit ==
    /\ InitClient
    /\ main = "steps_start"
    /\ batch = NoBatch
    /\ cli = NoCli
    /\ launcher = NoLauncher

StepNext ==
    \/ StepConnect
    \/ StepDeliver
    \/ StepCall
    \/ StepDiscovery
    \/ StepClear
    \/ SendReturns
    \/ StepWake
    \/ StepRead

StepSpec == StepInit /\ [][StepNext]_vars

(***************************************************************************)
(* Properties                                                              *)
(***************************************************************************)
Other(a) == CHOOSE b \in Agents : b # a
Waited == agent_id # Nil /\ log.kind # "exception"
StripJunk(payload) == SelectSeq(payload, LAMBDA c : c # JunkChar)
SentBy(n) == SelectSeq(sent, LAMBDA m : m.inv = n)

\* C1: the response a wait loop reads and acts on was recorded with the
\* sender id of the agent the loop waits for, never with another agent's.
C1_NoCrossAgent ==
    response # NoEntry => response.origin = agent_id

\* C1 witness: both agents' responses are recorded and the wait for one agent
\* has acted on that agent's own response.
C1_Witness ==
    /\ pc = "returned"
    /\ response # NoEntry
    /\ response.origin = agent_id
    /\ conversion_responses[Other(agent_id)] # NoEntry

\* C2: a late reply to the request of an earlier invocation that timed out
\* is never taken as the result of a later invocation.
C2_LateReplyNotTaken ==
    (response # NoEntry /\ response.re \in 1..Len(rets)
        /\ rets[response.re].kind = "timeout")
    => response.re = inv

\* C3: convert_files_batch holds one outcome per finished convert_file call,
\* in call order, False for a call that returned False or raised; when it
\* returns, convert_file has been called for every input, in input order.
C3_OneOutcomePerFile ==
    /\ batch.pc # "calling"
         => batch.results = [k \in 1..Len(rets) |-> rets[k].ret = "True"]
    /\ batch.pc \in {"done", "closed"}
         => calls = batch.files /\ Len(batch.results) = Len(batch.files)

\* C3 witness: the first file raised (input missing), the second was
\* converted, and the batch returned [False, True].
C3_Witness ==
    /\ batch.pc = "done"
    /\ Len(batch.files) = 2
    /\ rets[1].ret = "FileNotFoundError"
    /\ batch.results = << FALSE, TRUE >>

\* C4: the wait loop runs at most timeout poll ticks, a tick is always
\* possible while it waits, and with no response recorded for the selected
\* agent it ends after exactly timeout ticks with the timed-out failure.
C4_TimeoutAfterExactlyT ==
    /\ ticks <= timeout
    /\ pc = "sleeping" => ticks < timeout /\ ENABLED PollTick
    /\ (pc = "returned" /\ log.kind = "timeout") => ticks = timeout /\ ret = "False"
    /\ (pc = "returned" /\ Waited /\ conversion_responses[agent_id] = NoEntry)
         => log.kind = "timeout" /\ ret = "False" /\ ticks = timeout

\* C4 witness: a wait with the largest timeout ended timed out, nothing
\* recorded for the selected agent.
C4_Witness ==
    /\ pc = "returned"
    /\ log.kind = "timeout"
    /\ timeout = MaxTimeout
    /\ ticks = MaxTimeout
    /\ conversion_responses[agent_id] = NoEntry

C6_AgentErrorReported ==
    (pc = "returned" /\ response # NoEntry
        /\ response.conversion_status = "error" /\ response.error # Nil
        /\ response.success = Nil)
    => /\ ret = "False"
       /\ log = [kind |-> "conversion_failed", msg |-> response.error]
       /\ fs = fs0

\* C6 witness: the agent answered "unsupported prompt".
C6_Witness ==
    /\ pc = "returned"
    /\ ret = "False"
    /\ response.error = "unsupported prompt"
    /\ log.msg = "unsupported prompt"

C8_NoAgentNoEffect ==
    [][ (pc = "discovering" /\ pc' = "returned" /\ agents' = <<>>)
        => /\ ret' = "False"
           /\ log'.kind = "no_agents"
           /\ reads' = reads /\ inv \notin reads
           /\ sent' = sent /\ SentBy(inv) = <<>>
           /\ conversion_responses' = conversion_responses
           /\ fs' = fs /\ fs = fs0 ]_vars

\* C8 witness: a connected client's call ended with no agent found.
C8_Witness ==
    /\ pc = "returned"
    /\ connected
    /\ agents = <<>>
    /\ log.kind = "no_agents"

\* C9: a convert_file invocation sends at most one request, and sends it to
\* the first agent of the discovered list, however the invocation ends.
C9_OneRequestToFirstAgent ==
    pc # "idle" =>
        /\ Len(SentBy(inv)) <= 1
        /\ Len(SentBy(inv)) = 1
             => agents # <<>> /\ SentBy(inv)[1].to = agents[1]

\* C9 witness: two agents were discovered, the first reported an error, and
\* the one request went to the first.
C9_Witness ==
    /\ pc = "returned"
    /\ log.kind = "conversion_failed"
    /\ Len(agents) = 2
    /\ Len(sent) = 1
    /\ sent[1].to = agents[1]

\* C10: when connect() returned False, convert_files performs no per-file
\* step (no output directory is made, convert_file is not called) and
\* returns False.
C10_ConnectFailureAborts ==
    connect_ret = "False"
    => /\ calls = <<>>
       /\ fs.dirs = InitFs.dirs
       /\ cli.pc = "done" => cli.ret = "False"

\* C12: when the discovery adapter raised during a discover_agents call, the
\* call ends signalling a failure (an exception), not with a returned list.
C12_DiscoveryFailureSignalled ==
    (main = "api_done" /\ disc.op = "discover_agents" /\ disc.raised)
    => disc.error # Nil

\* C13 as claimed: on a connected client convert_file always returns True or
\* False, it never raises.
C13_NeverRaises ==
    (pc = "returned" /\ connected) => ret \in {"True", "False"}

\* C13 amended: on a connected client convert_file raises only for a missing
\* input file (FileNotFoundError, before anything is queried, sent or
\* written); a discovery error, a send error, a descriptor without agent_id,
\* a decode error and a write error all end in False returned.
C13_RaisesOnlyForMissingInput ==
    (pc = "returned" /\ connected) =>
        /\ call.input_file \in DOMAIN fs0.files => ret \in {"True", "False"}
        /\ call.input_file \notin DOMAIN fs0.files
             => /\ ret = "FileNotFoundError"
                /\ agents = <<>> /\ ~disc.raised
                /\ SentBy(inv) = <<>>
                /\ fs = fs0
        /\ (disc.raised \/ log.kind \in {"exception", "save_error"})
             => ret = "False"

\* C13 witness: on a connected client the send raised and convert_file
\* returned False.
C13_Witness ==
    /\ pc = "returned"
    /\ connected
    /\ log = [kind |-> "exception", msg |-> "send"]
    /\ ret = "False"

\* C14: a call of convert_file, discover_agents or list_available_conversions
\* on a client that is not connected raises RuntimeError at once: no adapter
\* query is made, nothing is sent and the response map is not changed.
C14_NotConnectedRaises ==
    [][ (~connected /\ main = "api" /\ main' # "api")
        => /\ inv' = inv + 1 => pc' = "returned" /\ ret' = "RuntimeError"
           /\ inv' = inv => main' = "api_done" /\ disc'.error = "RuntimeError"
           /\ disc'.queries = disc.queries
           /\ sent' = sent
           /\ conversion_responses' = conversion_responses ]_vars

\* C14 witness: list_available_conversions raised on a client that had been
\* connected and was disconnected again.
C14_Witness ==
    /\ main = "api_done"
    /\ disc.op = "list_available_conversions"
    /\ disc.error = "RuntimeError"
    /\ net.opened = 1 /\ net.closed = 1
    /\ disc.queries = 0

\* C16: once a convert_file invocation that waited for a response has
\* returned (success, agent error, malformed response or timeout), the
\* response map holds no entry for the agent it selected.
C16_EntryDestroyed ==
    (pc = "returned" /\ agent_id # Nil
        /\ log.kind \in {"none", "conversion_failed", "no_data", "save_error",
                          "timeout"})
    => conversion_responses[agent_id] = NoEntry

\* C17: the step that hands a request to the messaging adapter leaves no
\* entry for the addressed agent; no other step removes an entry; the map
\* has one slot per agent id.
C17_ClearedBeforeDispatch ==
    [][ /\ Len(sent') = Len(sent) + 1
             => conversion_responses'[sent'[Len(sent')].to] = NoEntry
        /\ sent' = sent
             => \A a \in Agents : conversion_responses[a] # NoEntry
                                    => conversion_responses'[a] # NoEntry
        /\ DOMAIN conversion_responses' = Agents ]_vars

\* C17 witness: a request has just been dispatched to an agent whose stale
\* entry was cleared for it.
C17_Witness ==
    /\ pc = "sending"
    /\ sent[Len(sent)].stale
    /\ sent[Len(sent)].to = agent_id
    /\ conversion_responses[agent_id] = NoEntry

\* C18 as claimed: the callback stores the content under its sender id if
\* and only if the content has a conversion_status field or its action is
\* "conversion_result"; other senders' entries are never touched.
C18_StoresIffHasField ==
    [][ delivered' = delivered + 1 =>
          LET c == inbox'.content
              s == inbox'.sender_id
          IN  /\ (c.conversion_status # Nil \/ c.action = "conversion_result")
                    => conversion_responses'[s] = c
              /\ ~(c.conversion_status # Nil \/ c.action = "conversion_result")
                    => conversion_responses' = conversion_responses
              /\ \A a \in Agents \ {s} :
                    conversion_responses'[a] = conversion_responses[a] ]_vars

\* C18 amended: the callback stores the content under its sender id if and
\* only if its conversion_status is present and not empty or its action is
\* "conversion_result"; otherwise the map is unchanged; other senders'
\* entries are never touched.
C18_StoresIffTruthy ==
    [][ delivered' = delivered + 1 =>
          LET c == inbox'.content
              s == inbox'.sender_id
              marked == \/ c.conversion_status \notin {Nil, ""}
                        \/ c.action = "conversion_result"
          IN  /\ marked => conversion_responses'[s] = c
              /\ ~marked => conversion_responses' = conversion_responses
              /\ \A a \in Agents \ {s} :
                    conversion_responses'[a] = conversion_responses[a] ]_vars

\* C18 witness: a message marked only by action "conversion_result" was
\* stored under its sender while the other agent's entry stayed.
C18_Witness ==
    /\ inbox.sender_id # Nil
    /\ inbox.content.conversion_status = Nil
    /\ inbox.content.action = "conversion_result"
    /\ conversion_responses[inbox.sender_id] = inbox.content
    /\ conversion_responses[Other(inbox.sender_id)] # NoEntry

\* C19: a convert_file invocation begins (and with it its discovery query)
\* only when every earlier invocation has ended; a request is sent only by
\* the latest invocation, all earlier ones having ended; at most one
\* invocation is under way at any time.
C19_StrictlySequential ==
    [][ /\ inv' # inv => inv' = inv + 1 /\ Len(rets) = inv
        /\ sent' # sent
             => /\ sent' = Append(sent, sent'[Len(sent')])
                /\ sent'[Len(sent')].inv = inv
                /\ Len(rets) = inv - 1
        /\ disc'.queries # disc.queries => Len(rets) = inv - 1
        /\ inv' - Len(rets') \in {0, 1} ]_vars

\* C19 witness: the second file's request has been sent, after the first
\* file's invocation sent its own and ended.
C19_Witness ==
    /\ batch.pc = "calling"
    /\ pc = "sleeping"
    /\ inv = 2
    /\ Len(sent) = 2
    /\ sent[1].inv = 1 /\ sent[2].inv = 2
    /\ Len(rets) = 1

\* C11: whenever convert_files has been left (all files converted, some or
\* all failed, an exception escaped the loop, or the run was cancelled),
\* client.disconnect() has been called, the session was closed at most once
\* and only if it had been opened, a session on which connected was set has
\* been closed, and the client is not connected.
C11_DisconnectOnEveryExit ==
    (cli.pc \in {"done", "exited"} /\ cli.ret # Nil)
        => /\ net.disconnect_calls = 1
           /\ net.closed <= net.opened
           /\ net.closed <= 1
           /\ connect_ret = "True" => net.closed = 1
           /\ cli.cancelled /\ net.opened = 1 /\ connect_ret = Nil
                => net.closed = 1
           /\ ~connected

\* C11 witness: a run cancelled while convert_file waited for the reply has
\* left convert_files with the session closed.
C11_Witness ==
    /\ cli.pc = "done"
    /\ cli.cancelled
    /\ cli.ret = "CancelledError"
    /\ Len(rets) > 0
    /\ rets[Len(rets)].kind = "raised"
    /\ net.opened = 1
    /\ net.closed = 1
    /\ net.disconnect_calls = 1
    /\ ~connected

\* Some convert_file call of the run returned True.
SomeFileConverted == \E k \in 1..Len(rets) : rets[k].ret = "True"

\* main() returned before convert_files was called.
RejectedBeforeRun ==
    \/ ~ValidateArgs(fs, cli.argv)
    \/ GetInputFiles(fs, cli.argv.input, cli.argv.from_format) = <<>>

\* C15 as stated: when main() has returned, the exit code is 0 exactly when
\* at least one file was converted, and it is 1 when validation failed, no
\* input file was found or the run was interrupted.
C15_ExitZeroIffConverted ==
    (cli.pc = "exited" /\ cli.argv # NoArgV)
        => /\ cli.exit = <<0>> <=> SomeFileConverted
           /\ cli.exit # <<0>> => cli.exit = <<1>>
           /\ RejectedBeforeRun \/ cli.cancelled => cli.exit = <<1>>

\* C15 amended: when main() has returned, the exit code is 0 exactly when
\* the run was not interrupted and at least one file was converted; it is 1
\* otherwise, in particular after an interruption that follows a converted
\* file, and when validation failed or no input file was found, in which
\* case no client was connected and no file was tried.
C15_ExitZeroIffConvertedAndNotInterrupted ==
    (cli.pc = "exited" /\ cli.argv # NoArgV)
        => /\ cli.exit = <<0>> <=> (SomeFileConverted /\ ~cli.cancelled)
           /\ cli.exit # <<0>> => cli.exit = <<1>>
           /\ RejectedBeforeRun
                => cli.exit = <<1>> /\ inv = 0 /\ net.opened = 0
                   /\ net.disconnect_calls = 0

\* C15 witness: a directory of two files was given, the first file failed,
\* the second was converted, and main() returned 0.
C15_Witness ==
    /\ cli.pc = "exited"
    /\ cli.argv.input = InDir
    /\ Len(cli.args.input_files) = 2
    /\ Len(rets) = 2
    /\ rets[1].ret = "False"
    /\ rets[2].ret = "True"
    /\ cli.exit = <<0>>

\* C20: once the run has been cancelled while convert_file waited, no poll
\* tick runs, no request is sent, no discovery query is made, no file is
\* written and no further convert_file call begins or ends; the cancelled
\* call ended by raising CancelledError, not by returning a failure; when
\* convert_files has been left the client is disconnected, and main()
\* returns 1.
C20_CancellationAborts ==
    /\ [][ cli.cancelled
             => /\ ticks' = 0 \/ ticks' = ticks
                /\ sent' = sent
                /\ disc'.queries = disc.queries
                /\ fs' = fs
                /\ inv' = inv
                /\ rets' = rets ]_vars
    /\ [](cli.cancelled /\ Len(rets) = inv /\ inv > 0
            => rets[inv] = [ret |-> "CancelledError", kind |-> "raised"])
    /\ [](cli.cancelled /\ cli.pc \in {"done", "exited"}
            => /\ ~connected
               /\ net.disconnect_calls = 1
               /\ cli.ret = "CancelledError")
    /\ [](cli.cancelled /\ cli.pc = "exited" => cli.exit = <<1>>)

\* C20 witness: of two files, the first one's request was sent and the run
\* was cancelled during the wait for its reply; the second file was never
\* tried, the client was disconnected and main() returned 1.
C20_Witness ==
    /\ cli.pc = "exited"
    /\ cli.cancelled
    /\ Len(cli.args.input_files) = 2
    /\ inv = 1
    /\ Len(sent) = 1
    /\ rets = << [ret |-> "CancelledError", kind |-> "raised"] >>
    /\ ~connected
    /\ net.closed = 1
    /\ cli.exit = <<1>>

Conclusive(r) ==
    \/ r.conversion_status \in {"success", "error"}
    \/ r.success \in {"True", "False"}

\* C22 as stated: a poll tick that follows the recording of a success or
\* error response for the selected agent (recorded since the request was
\* handed to the send, or since the previous tick) ends convert_file with an
\* outcome taken from a recorded success or error response, never with a
\* timeout and never by waiting on.
C22_RecordedResponseObserved ==
    [][ (pc = "sleeping" /\ ticks' = ticks + 1 /\ inbox.owed = inv)
          => (/\ pc' = "returned"
              /\ log'.kind # "timeout"
              /\ Conclusive(response')) ]_vars

\* C22 amended: the same, provided the success or error response is still
\* the agent's entry at that tick, no later recognized message of the agent
\* that says neither success nor error having replaced it; the response
\* acted on is then the entry, which is the last message recorded.
C22_RecordedResponseObservedUnlessReplaced ==
    [][ (/\ pc = "sleeping" /\ ticks' = ticks + 1 /\ inbox.owed = inv
         /\ Conclusive(conversion_responses[agent_id]))
          => (/\ pc' = "returned"
              /\ log'.kind # "timeout"
              /\ response' = conversion_responses[agent_id]
              /\ inbox.sender_id = agent_id /\ Conclusive(inbox.content)
                   /\ inbox.content.conversion_status \notin {Nil, ""}
                   => response' = inbox.content) ]_vars

\* C22 witness: with a timeout of two ticks, the only message, an error
\* reply of the selected agent, was recorded after the first tick and
\* observed at the second, which is the last.
C22_Witness ==
    /\ main = "calling"
    /\ pc = "returned"
    /\ timeout = 2
    /\ ticks = 2
    /\ delivered = 1
    /\ inbox.sender_id = agent_id
    /\ response = inbox.content
    /\ response.conversion_status = "error"
    /\ log.kind = "conversion_failed"

\* The convert_file calls convert_files has made so far, with the input
\* file each one is for.
PlannedFor(k) == cli.args.input_files[k]

\* C23 as stated: with exactly one input file the output file of the call
\* is the output path given; with several the output path itself is the
\* directory, it exists when the call is made, and the output file lies
\* directly in it, named <input stem><extension of the target format>.
C23_TargetIsTheDirectory ==
    cli.pc \notin {"off", "start"}
        => \A k \in 1..Len(calls) :
             IF Len(cli.args.input_files) = 1
             THEN calls[k].output_file = cli.args.output_path
             ELSE /\ calls[k].output_file.dir
                       = Append(cli.args.output_path.dir, cli.args.output_path.name)
                  /\ calls[k].output_file.dir \in fs.dirs
                  /\ calls[k].output_file.name
                       = N(PlannedFor(k).name.stem,
                           ExtensionFor(calls[k].target_format))

\* C23 amended: with several input files the directory is the output path
\* itself when its name has no extension, and otherwise the directory next
\* to it that is named by its stem (the name without the extension).
C23_TargetOrItsStemIsTheDirectory ==
    cli.pc \notin {"off", "start"}
        => \A k \in 1..Len(calls) :
             IF Len(cli.args.input_files) = 1
             THEN calls[k].output_file = cli.args.output_path
             ELSE /\ calls[k].output_file.dir
                       = Append(cli.args.output_path.dir,
                                N(cli.args.output_path.name.stem, ""))
                  /\ calls[k].output_file.dir \in fs.dirs
                  /\ calls[k].output_file.name
                       = N(PlannedFor(k).name.stem,
                           ExtensionFor(calls[k].target_format))

\* C23 witness: two input files and the output path out.d; the second call
\* is for the output file out/gone.pdf, and the directory out exists.
C23_Witness ==
    /\ Len(cli.args.input_files) = 2
    /\ cli.args.output_path = P(<<>>, "out", ".d")
    /\ Len(calls) = 2
    /\ calls[2].output_file = P(<< N("out", "") >>, "gone", ".pdf")
    /\ << N("out", "") >> \in fs.dirs
    /\ << N("out", ".d") >> \notin fs.dirs

\* C24: a poll tick that finds a success response of the selected agent
\* with neither file_data nor output_data ends convert_file at that tick
\* with False and the missing data logged, the file system untouched; one
\* that finds a success response whose payload is not base64 ends it with
\* False and the save error logged, the file system untouched; neither
\* raises.
C24_SuccessWithoutPayloadFails ==
    [][ LET e == conversion_responses[agent_id] IN
        (/\ pc = "sleeping" /\ ticks' = ticks + 1
         /\ e.conversion_status = "success" \/ e.success = "True"
         /\ \/ e.file_data = NoData /\ e.output_data = NoData
            \/ e.file_data = PayloadBad)
          => (/\ pc' = "returned"
              /\ ret' = "False"
              /\ response' = e
              /\ fs' = fs
              /\ log'.kind = IF e.file_data = NoData THEN "no_data"
                             ELSE "save_error"
              /\ rets' = Append(rets, [ret |-> "False", kind |-> log'.kind]) ) ]_vars

\* C24 witness: with a timeout of two ticks, the first tick found a success
\* response without payload; convert_file returned False there, and the
\* output file and its directory do not exist.
C24_Witness ==
    /\ main = "calling"
    /\ pc = "returned"
    /\ timeout = 2
    /\ ticks = 1
    /\ response.conversion_status = "success"
    /\ response.file_data = NoData /\ response.output_data = NoData
    /\ ret = "False"
    /\ log.kind = "no_data"
    /\ call.output_file = OutHelloMd
    /\ ~Exists(fs, OutHelloMd)
    /\ Parent(OutHelloMd) \notin fs.dirs

\* C25: when convert_files returns, it returns True if and only if at least
\* one convert_file call of the run returned True, whatever the list of
\* input files, the empty list included.
C25_TrueIffSomeFileConverted ==
    (cli.pc = "done" /\ cli.ret \in {"True", "False"})
        => (cli.ret = "True" <=> SomeFileConverted)

\* The formats the extension lookup has an extension for, and the suffixes
\* detect_mime_type knows, read off the tables.
HasExtension(f) ==
    \/ \E k \in 1..Len(TypesMap) : TypesMap[k][2] = f
    \/ f \in DOMAIN ExtMap
KnownSuffix(x) ==
    \/ \E k \in 1..Len(TypesMap) : TypesMap[k][1] \in {x, Lower(x)}
    \/ Lower(x) \in DOMAIN CommonTypes

C27_LookupsTotalWithFallbacks ==
    main \in {"formats_planned", "formats_done"}
        => /\ call.source_format # Nil
           /\ call.output_file.name.suffix # Nil
           /\ ~KnownSuffix(call.input_file.name.suffix)
                => call.source_format = "application/octet-stream"
           /\ ~HasExtension(call.target_format)
                => call.output_file.name = N(call.input_file.name.stem, ".out")
           /\ main = "formats_done" => ret # Nil

\* C27 witness: a.XYZ to be converted to audio/wav, which neither
\* mimetypes.types_map nor ext_map maps: the source format is
\* application/octet-stream, the output file a.out, and a.out is detected
\* as application/octet-stream.
C27_Witness ==
    /\ main = "formats_done"
    /\ call.input_file.name.suffix = ".XYZ"
    /\ call.source_format = "application/octet-stream"
    /\ call.target_format = "audio/wav"
    /\ call.output_file.name = N("a", ".out")
    /\ ret = "application/octet-stream"

\* The agent ids of a list discover_agents returned.
AgentIds(found) == { found[k] : k \in 1..Len(found) }

\* C28: when the second of two immediately successive discover_agents calls
\* for the same pair of formats has returned, the agents advertising the
\* conversion being the same for both, it has returned the same set of
\* agent ids as the first; and no query changes the response map or the
\* connected flag.
C28_DiscoverAgentsIdempotent ==
    /\ [][ main = "querying" /\ disc'.queries # disc.queries
             => /\ conversion_responses' = conversion_responses
                /\ connected' = connected ]_vars
    /\ [](main = "api_done" /\ disc.op = "discover_agents"
            /\ disc.calls = 2 /\ disc.error = Nil
            => AgentIds(disc.result) = AgentIds(disc.first))

\* C29: the request handed to send_direct_message carries the base64
\* encoding of all the bytes of the input file, the input file's name, the
\* source and target formats of the call, which are the formats the
\* discovery query was made with, and the prompt when the caller gave one
\* (not None, not empty); without one it has no prompt key.
C29_RequestContent ==
    [][ sent' # sent
          => LET m == sent'[Len(sent')]
                 c == calls[m.inv]
             IN  /\ m.inv = inv
                 /\ B64Decode(m.content.file_data)
                      = [ok |-> TRUE, bytes |-> fs.files[c.input_file]]
                 /\ m.content.filename = c.input_file.name
                 /\ m.content.source_format = c.source_format
                 /\ m.content.target_format = c.target_format
                 /\ disc'.asked = << m.content.source_format,
                                     m.content.target_format >>
                 /\ m.content.prompt = IF c.prompt \in {Nil, ""} THEN Nil
                                       ELSE c.prompt ]_vars

\* C29 witness: the request for in/a.txt, given with the empty prompt and
\* without a source format, was sent: it has the format detected from the
\* suffix, the target format given, the whole file, and no prompt key.
C29_Witness ==
    /\ Len(sent) = 1
    /\ cli.args.from_format = Nil
    /\ calls[1].prompt = ""
    /\ sent[1].content.prompt = Nil
    /\ sent[1].content.filename = N("a", ".txt")
    /\ sent[1].content.source_format = "text/plain"
    /\ sent[1].content.target_format = "application/pdf"
    /\ sent[1].content.file_data = B64Encode(HelloBytes)

\* C30: every recognized message becomes its sender's entry, replacing the
\* entry that was there; a message that is not recognized changes no entry;
\* between callbacks an entry changes only by being cleared; and the
\* response a poll tick acts on is the selected agent's entry at that tick.
\* Hence the entry of a sender is always the latest recognized message from
\* it since the entry was last cleared.
C30_LastWriterWins ==
    [][ /\ delivered' # delivered
             => LET c == inbox'.content
                    s == inbox'.sender_id
                IN  /\ Recognized(c) => conversion_responses'[s] = c
                    /\ ~Recognized(c)
                         => conversion_responses'[s] = conversion_responses[s]
                    /\ \A a \in Agents \ {s} :
                         conversion_responses'[a] = conversion_responses[a]
        /\ delivered' = delivered
             => \A a \in Agents :
                  conversion_responses'[a] \in {conversion_responses[a], NoEntry}
        /\ (pc = "sleeping" /\ ticks' = ticks + 1
              /\ conversion_responses[agent_id] # NoEntry)
             => response' = conversion_responses[agent_id] ]_vars

\* C30 witness: after the request was sent, the selected agent's success or
\* error response was recorded and then replaced by its progress note,
\* which is the entry the next poll tick will find.
C30_Witness ==
    /\ pc = "sleeping"
    /\ delivered = 2
    /\ inbox.owed = inv
    /\ inbox.sender_id = agent_id
    /\ inbox.content.conversion_status = "processing"
    /\ conversion_responses[agent_id] = inbox.content

\* C31: a poll tick that finds an entry of the selected agent that says
\* neither success nor error does not act on it: before the last tick the
\* wait goes on, at the last tick convert_file returns False with the
\* timeout logged; the file system is untouched either way.  A tick that
\* finds a success or error entry, also one that replaced such an entry,
\* ends the call with an outcome other than the timeout.
C31_InconclusiveResponseKeepsWaiting ==
    [][ LET e == conversion_responses[agent_id] IN
        (pc = "sleeping" /\ ticks' = ticks + 1 /\ e # NoEntry)
          => IF Conclusive(e)
             THEN pc' = "returned" /\ log'.kind # "timeout" /\ response' = e
             ELSE /\ response' = e
                  /\ fs' = fs
                  /\ ticks + 1 < timeout
                       => pc' = "sleeping" /\ rets' = rets /\ log' = log
                  /\ ticks + 1 >= timeout
                       => /\ pc' = "returned"
                          /\ ret' = "False"
                          /\ log'.kind = "timeout" ]_vars

\* C31 witness: the first of two ticks found the selected agent's progress
\* note, recorded after the request was sent, and the wait goes on.
C31_Witness ==
    /\ main = "calling"
    /\ pc = "sleeping"
    /\ timeout = 2
    /\ ticks = 1
    /\ response.conversion_status = "processing"
    /\ response.re = inv
    /\ conversion_responses[agent_id] = response

\* C32: every agent that has an entry in the response map has been sent a
\* request by this client.
C32_EntriesOnlyForAddressedAgents ==
    \A a \in Agents :
        conversion_responses[a] # NoEntry
            => \E k \in 1..Len(sent) : sent[k].to = a

\* C33: while the network session opened by connect is open, the connected
\* flag is True (so that disconnect closes the session).
C33_ConnectedTracksSession ==
    session = "open" => connected

\* C34: in a batch of several input files, the convert_file calls made for
\* two distinct input files name two distinct output files.
C34_DistinctOutputsInBatch ==
    Len(cli.args.input_files) > 1
        => \A j, k \in 1..Len(calls) :
               calls[j].input_file # calls[k].input_file
                   => calls[j].output_file # calls[k].output_file

\* C35: once main() has taken a command line whose input path does not
\* exist, whose output parent directory does not exist, or whose input is a
\* directory without both formats, it has returned exit code 1, and no
\* client was connected or disconnected, no request was made and the file
\* system is as it was.
C35_ValidationFailureTouchesNothing ==
    LET argv == cli.argv
        missingInput == argv.input \notin DOMAIN InitFs.files
                        /\ AsDir(argv.input) \notin InitFs.dirs
        missingParent == Parent(argv.output) \notin InitFs.dirs
        dirWithoutFormats ==
            /\ AsDir(argv.input) \in InitFs.dirs
            /\ argv.from_format \in {Nil, ""} \/ argv.to_format \in {Nil, ""}
    IN  (argv # NoArgV /\ (missingInput \/ missingParent \/ dirWithoutFormats))
            => /\ cli.pc = "exited"
               /\ cli.exit = << 1 >>
               /\ fs = InitFs
               /\ connect_ret = Nil
               /\ session = "closed"
               /\ net = [opened |-> 0, closed |-> 0, disconnect_calls |-> 0]
               /\ inv = 0
               /\ sent = <<>>

C35_Witness ==
    /\ cli.pc = "exited"
    /\ cli.exit = << 1 >>
    /\ cli.argv.input = HelloTxt
    /\ cli.argv.output = OutHelloMd
    /\ Parent(cli.argv.output) \notin fs.dirs

\* C36: a start_agent call for a category whose recorded process is alive
\* returns False, spawns nothing and leaves the pid file as it is; at no
\* time are two processes of one category alive that the launcher started
\* and recorded; and after a start that failed (Popen or the pid file write
\* raised, or the child ended within the start check) the category has no
\* pid file.
C36_OneRecordedProcessPerCategory ==
    [][ LET l == launcher
            n == launcher'
            c == n.category
            startCalled == /\ n.op = "start"
                           /\ n.pc \in {"returned", "start_sleep"}
                           /\ \/ l.pc = "idle"
                              \/ l.pc = "returned" /\ l.op = "stop"
            recordedAlive == /\ l.pidfile[c] \in 1..Len(l.procs)
                             /\ l.procs[l.pidfile[c]].alive
        IN  /\ (startCalled /\ recordedAlive)
                  => (n.pc = "returned" /\ n.returned = "False"
                      /\ n.procs = l.procs /\ n.pidfile = l.pidfile)
            /\ \A k \in Categories :
                  Cardinality({ p \in 1..Len(n.procs) :
                                  /\ n.procs[p].category = k
                                  /\ n.procs[p].alive
                                  /\ n.procs[p].recorded }) <= 1
            /\ (n.pc = "returned" /\ n.op = "start"
                  /\ n.said \in {"Error starting", "Failed to start"})
                  => (n.returned = "False" /\ n.pidfile[c] = 0) ]_vars

C36_Witness ==
    /\ launcher.pc = "returned"
    /\ launcher.op = "start"
    /\ launcher.said = "already running"
    /\ launcher.pidfile[launcher.category] = 2
    /\ launcher.procs[2].alive
    /\ launcher.procs[1].category = launcher.category

\* C37: stop_agent sends SIGKILL to a process only after SIGTERM and after
\* five grace checks found the process alive; and whenever stop_agent has
\* returned for a category that had a pid file when it was called, the
\* category has no pid file.
C37_TerminateThenKillAndNoPidFile ==
    [][ LET n == launcher' IN
        /\ \A p \in 1..Len(n.procs) :
              LET sigs == n.procs[p].signals IN
              \A k \in 1..Len(sigs) :
                  IF sigs[k].sig = "SIGKILL"
                  THEN k = 2 /\ sigs[1].sig = "SIGTERM" /\ sigs[k].checks = 5
                  ELSE k = 1 /\ sigs[k].sig = "SIGTERM"
        /\ (n.pc = "returned" /\ n.op = "stop" /\ n.had)
              => n.pidfile[n.category] = 0 ]_vars

C37_Witness ==
    /\ launcher.pc = "returned"
    /\ launcher.op = "stop"
    /\ launcher.had
    /\ launcher.returned = "True"
    /\ \E p \in 1..Len(launcher.procs) :
         /\ launcher.procs[p].category = launcher.category
         /\ Len(launcher.procs[p].signals) = 2
         /\ launcher.procs[p].signals[2].sig = "SIGKILL"

=============================================================================
